---- MODULE Spec2Model ----
(***************************************************************************)
(* A model of the vocabulary reader revovo.py (Vocabulary and              *)
(* ValidatingVocabulary, built from a list of RDF triples) and of the      *)
(* rule engine of validator/vocvalidator.py (Reporter, validate_vocabulary *)
(* and main).                                                              *)
(*                                                                         *)
(* Strings are sequences of atoms.  An atom is one character, except that  *)
(* a literal the code never looks into is written as one atom (the IVOA    *)
(* root "http://www.ivoa.net/rdf/", a flavour name, the sentinel URI).     *)
(* startswith, slicing and concatenation are those of sequences.           *)
(***************************************************************************)
EXTENDS Integers, Sequences, FiniteSets, TLC

(***************************************************************************)
(* Bounds of the model.                                                    *)
(***************************************************************************)
\* the longest list of term triples (the part of the input after the
\* ivoasem:vocflavour declarations)
MaxTriples == 3
\* the largest number of ivoasem:vocflavour declarations in an input
MaxFlavourDecls == 2

(***************************************************************************)
(* Strings.                                                                *)
(***************************************************************************)
\* Python's None; no string of the model is this sequence
NoneVal == <<"None">>

StartsWith(s, prefix) ==
    /\ Len(prefix) <= Len(s)
    /\ SubSeq(s, 1, Len(prefix)) = prefix

\* s[n:] of Python, n >= 0
SliceFrom(s, n) == IF n >= Len(s) THEN <<>> ELSE SubSeq(s, n + 1, Len(s))

\* x in y of Python, for strings
IsSubstring(x, y) ==
    \E i \in 0..Len(y) :
        /\ i + Len(x) <= Len(y)
        /\ SubSeq(y, i + 1, i + Len(x)) = x

\* the elements of a sequence
Range(seq) == {seq[i] : i \in 1..Len(seq)}

(***************************************************************************)
(* Python dicts, as lists of <<key, value>> in insertion order with        *)
(* unique keys: assigning to a key that exists keeps its place.            *)
(***************************************************************************)
DictHas(d, k) == \E i \in 1..Len(d) : d[i][1] = k

DictGet(d, k) == d[CHOOSE i \in 1..Len(d) : d[i][1] = k][2]

DictSet(d, k, v) ==
    IF DictHas(d, k)
    THEN [i \in 1..Len(d) |-> IF d[i][1] = k THEN <<k, v>> ELSE d[i]]
    ELSE Append(d, <<k, v>>)

DictKeys(d) == [i \in 1..Len(d) |-> d[i][1]]

DictKeySet(d) == {d[i][1] : i \in 1..Len(d)}

\* dict(pairs).get(k): the value of the last pair with key k, None without one
LastValue(pairs, k) ==
    IF \E i \in 1..Len(pairs) : pairs[i][1] = k
    THEN LET last == CHOOSE i \in 1..Len(pairs) :
                        /\ pairs[i][1] = k
                        /\ \A j \in (i + 1)..Len(pairs) : pairs[j][1] # k
         IN  pairs[last][2]
    ELSE NoneVal

(***************************************************************************)
(* Constants of revovo.py.                                                 *)
(***************************************************************************)
RDF_CLASS == <<"RDF Class">>
RDF_PROPERTY == <<"RDF Property">>
SKOS == <<"SKOS">>

KnownFlavours == {RDF_CLASS, RDF_PROPERTY, SKOS}

PROPERTIES_BY_FLAVOUR(f) ==
    CASE f = RDF_CLASS ->
            [label_property |-> "rdfs:label",
             description_property |-> "rdfs:comment",
             wider_property |-> "rdfs:subClassOf"]
      [] f = RDF_PROPERTY ->
            [label_property |-> "rdfs:label",
             description_property |-> "rdfs:comment",
             wider_property |-> "rdfs:subPropertyOf"]
      [] f = SKOS ->
            [label_property |-> "skos:prefLabel",
             description_property |-> "skos:definition",
             wider_property |-> "skos:broader"]

TERM_TYPES(f) ==
    CASE f = RDF_CLASS -> <<"rdfs:Class">>
      [] f = RDF_PROPERTY -> <<"rdf:Property">>
      [] f = SKOS -> <<"skos:Concept">>

\* Vocabulary.uri before _get_vocab_uri has found one
UriNotFound == <<"Vocabulary URI not found in RDF/X">>

\* an attribute that no statement has set yet
Unset == "<unset>"
UnsetStr == <<"<unset>">>

\* ivo_voc_uri of _validate_vocabulary_uri
IvoVocUri == <<"http://www.ivoa.net/rdf/">>

\* frowned_upon of _validate_extra_skos_properties
FrownedUpon ==
    <<"skos:related", "skos:exactMatch", "skos:closeMatch",
      "skos:broadMatch", "skos:narrowMatch", "skos:ConceptScheme",
      "skos:inScheme", "skos:hasTopconcept", "skos:altLabel",
      "skos:hiddenLabel">>

\* every predicate a triple of the model can carry
Predicates ==
    {"ivoasem:vocflavour", "rdf:type", "rdfs:label", "rdfs:comment",
     "rdfs:subClassOf", "rdfs:subPropertyOf", "skos:prefLabel",
     "skos:definition", "skos:broader", "ivoasem:deprecated",
     "ivoasem:useInstead", "ivoasem:preliminary"} \cup Range(FrownedUpon)

(***************************************************************************)
(* The inputs of the model: the triple lists a Vocabulary is built from.   *)
(***************************************************************************)
Triple(s, p, o) == [s |-> s, p |-> p, o |-> o]

\* "http://www.ivoa.net/rdf/t", the vocabulary the inputs are about
VocUri == IvoVocUri \o <<"t">>
\* a vocabulary outside the IVOA root
OtherVocUri == <<"http://test.voc/", "o">>

\* terms a and b of VocUri
UriA == VocUri \o <<"#", "a">>
UriB == VocUri \o <<"#", "b">>
\* term a of "http://www.ivoa.net/rdf/t2", another vocabulary whose URI
\* begins with the characters of VocUri
UriP == VocUri \o <<"2", "#", "a">>
\* term a of OtherVocUri
UriF == OtherVocUri \o <<"#", "a">>

\* a flavour value that PROPERTIES_BY_FLAVOUR does not know
BogusFlavour == <<"OWL">>

\* literals for labels and definitions
LabelA == <<"A">>
LabelX == <<"x">>
DefAX == <<"a", "x">>
DefY == <<"y">>

SeqsUpTo(S, n) == UNION {[1..k -> S] : k \in 0..n}

\* the declarations an input can open with
FlavourDecls ==
    {Triple(u, "ivoasem:vocflavour", f) :
        u \in {VocUri, OtherVocUri}, f \in KnownFlavours \cup {BogusFlavour}}

\* per flavour, a flavour other than it
OtherFlavour(f) ==
    CASE f = RDF_CLASS -> RDF_PROPERTY
      [] f = RDF_PROPERTY -> SKOS
      [] OTHER -> RDF_CLASS

\* triples declaring terms, their labels and their definitions
TermTriples(f) ==
    LET own == IF f \in KnownFlavours THEN f ELSE SKOS
        props == PROPERTIES_BY_FLAVOUR(own)
    IN  {Triple(UriA, "rdf:type", TERM_TYPES(own)),
         Triple(UriB, "rdf:type", TERM_TYPES(own)),
         Triple(UriF, "rdf:type", TERM_TYPES(own)),
         Triple(UriA, "rdf:type", TERM_TYPES(OtherFlavour(own))),
         Triple(UriA, props.label_property, LabelA),
         Triple(UriA, props.label_property, LabelX),
         Triple(UriA, props.description_property, DefAX),
         Triple(UriB, props.description_property, DefY)}

\* triples on a hierarchy predicate
HierarchyTriples(f) ==
    LET own == IF f \in KnownFlavours THEN f ELSE SKOS
        wider == PROPERTIES_BY_FLAVOUR(own).wider_property
        other == PROPERTIES_BY_FLAVOUR(OtherFlavour(own)).wider_property
    IN  {Triple(UriA, wider, UriB),
         Triple(UriA, wider, UriF),
         Triple(UriB, wider, UriA),
         Triple(UriF, wider, UriA),
         Triple(UriP, wider, UriB),
         Triple(UriA, other, UriB)}

\* triples on the deprecation, replacement and preliminary predicates
StatusTriples ==
    {Triple(UriA, "ivoasem:deprecated", NoneVal),
     Triple(UriB, "ivoasem:deprecated", NoneVal),
     Triple(UriF, "ivoasem:deprecated", NoneVal),
     Triple(UriA, "ivoasem:useInstead", UriB),
     Triple(UriA, "ivoasem:useInstead", UriF),
     Triple(UriB, "ivoasem:useInstead", UriA),
     Triple(UriF, "ivoasem:useInstead", UriA),
     Triple(UriA, "ivoasem:preliminary", NoneVal),
     Triple(UriF, "ivoasem:preliminary", NoneVal)}

\* the term triples that can follow the declarations of flavour f
Bodies(f) ==
    SeqsUpTo(TermTriples(f), MaxTriples)
        \cup SeqsUpTo(HierarchyTriples(f), MaxTriples)
        \cup SeqsUpTo(StatusTriples, MaxTriples)

\* one declaration of a known flavour for VocUri
IsPlainHeader(h) ==
    /\ Len(h) = 1
    /\ h[1].s = VocUri
    /\ h[1].o \in KnownFlavours

\* the triple lists of the model: up to MaxFlavourDecls declarations, then
\* up to MaxTriples term triples (one at most after declarations that are
\* missing, repeated, of an unknown flavour or of another vocabulary)
InputTriples ==
    LET FlavourOf(h) == IF Len(h) = 0 THEN SKOS ELSE h[1].o
    IN  UNION {{h \o b : b \in {x \in Bodies(FlavourOf(h)) :
                                    IsPlainHeader(h) \/ Len(x) <= 1}} :
               h \in SeqsUpTo(FlavourDecls, MaxFlavourDecls)}

\* the lists of typed-node subjects that from_file hands over in the triple
\* (None, "debug:terms_from_typed_nodes", list); <<>> is no such triple
InputDebugTriples == {<<>>, << <<UriA>> >>}

(***************************************************************************)
(* The state: one Vocabulary under construction, and one run of the        *)
(* external validator.                                                     *)
(***************************************************************************)
VARIABLES
    cls,                \* the class constructed
    triples,            \* the constructor's argument, without the debug triple
    debug_triples,      \* the objects of its debug:terms_from_typed_nodes triples
    pc,                 \* the statement of the constructor to run next
    exc,                \* the exception that left the constructor, if any
    by_property,        \* the local of _build_vocabulary
    terms, deprecated_terms, preliminary_terms, wider_terms,
    errors, warnings, uri, flavour,
    label_property, description_property, wider_property, term_type,
    asked, answer,      \* the last to_term call on the built model
    doc                 \* the document from_file reads, <<>> when there is none

\* what lies beside the model under construction
VARIABLES
    earlier,            \* the errors and warnings of an earlier construction
                        \* from the same triples, <<>> when there was none
    uat_mapping,        \* ConceptMapping.uat_mapping of uatbridge/uat2ivo.py
    ivo_mapping,        \* ConceptMapping.ivo_mapping
    bridge_call         \* the last call on the ConceptMapping, with the
                        \* mappings before it

bridgeVars == <<uat_mapping, ivo_mapping, bridge_call>>

extraVars == <<earlier, bridgeVars>>

modelVars ==
    <<cls, triples, debug_triples, pc, exc, by_property, terms,
      deprecated_terms, preliminary_terms, wider_terms, errors, warnings, uri,
      flavour, label_property, description_property, wider_property,
      term_type, asked, answer, doc, extraVars>>

\* the run of validator/vocvalidator.py
VARIABLES
    bail,               \* Reporter.bail, from --bail
    vocuris,            \* args.vocuris
    remote,             \* what the server returns for each of vocuris
    vpc,                \* the statement of main to run next
    vidx,               \* the position of main's loop in vocuris
    vrule,              \* the position of validate_vocabulary's loop
    out,                \* the lines printed by Reporter._message
    cur_vocab,          \* Reporter.cur_vocab
    calls,              \* the calls of rules made by run_check, with outcome
    rdfx_cache,         \* the Vocabulary objects get_rdfx has a result for
    rdfx_fetches        \* the RDF/X retrievals made, per Vocabulary object

engineVars ==
    <<bail, vocuris, remote, vpc, vidx, vrule, out, cur_vocab, calls,
      rdfx_cache, rdfx_fetches>>

vars == <<modelVars, engineVars>>

\* a call on the ConceptMapping: add_pair(uat, ivo) or
\* update_from_etree(tree), whether it raised, and the mappings before it
Call(op, uat, ivo, tree, raised, uat_before, ivo_before) ==
    [op |-> op, uat |-> uat, ivo |-> ivo, tree |-> tree, raised |-> raised,
     uat_before |-> uat_before, ivo_before |-> ivo_before]

NoCall == Call("", NoneVal, NoneVal, <<>>, FALSE, <<>>, <<>>)

\* nothing beside the model under construction; ConceptMapping.__init__
\* with BOOTSTRAP leaves both mappings empty
ExtraIdle ==
    /\ earlier = <<>>
    /\ uat_mapping = <<>>
    /\ ivo_mapping = <<>>
    /\ bridge_call = NoCall

\* no validator run: the state of the engine while a model is built
EngineIdle ==
    /\ bail = FALSE
    /\ vocuris = <<>>
    /\ remote = <<>>
    /\ vpc = "idle"
    /\ vidx = 0
    /\ vrule = 0
    /\ out = <<>>
    /\ cur_vocab = NoneVal
    /\ calls = <<>>
    /\ rdfx_cache = {}
    /\ rdfx_fetches = <<>>

\* exceptions, by class and argument
NoException == [type |-> "", arg |-> <<>>]
KeyError(key) == [type |-> "KeyError", arg |-> key]
AttributeError(name) == [type |-> "AttributeError", arg |-> name]

\* a diagnostic string, by its format and what is put into it
MsgN(kind, subject, items, n) ==
    [kind |-> kind, subject |-> subject, items |-> items, n |-> n]

Msg(kind, subject, items) == MsgN(kind, subject, items, 0)

\* Vocabulary.__init__ up to the call of _build_vocabulary, for an argument
\* out of inputs
Construct(inputs) ==
    /\ cls \in {"Vocabulary", "ValidatingVocabulary"}
    /\ triples \in inputs
    /\ debug_triples \in
           IF cls = "Vocabulary" THEN {<<>>} ELSE InputDebugTriples
    /\ pc = "_build_vocabulary"
    /\ exc = NoException
    /\ by_property = [p \in Predicates |-> <<>>]
    /\ terms = <<>>
    /\ deprecated_terms = <<>>
    /\ preliminary_terms = {}
    /\ wider_terms = <<>>
    /\ errors = <<>>
    /\ warnings = <<>>
    /\ uri = UriNotFound
    /\ flavour = UnsetStr
    /\ label_property = Unset
    /\ description_property = Unset
    /\ wider_property = Unset
    /\ term_type = UnsetStr
    /\ asked = NoneVal
    /\ answer = NoneVal
    /\ doc = <<>>
    /\ ExtraIdle
    /\ EngineIdle

Init == Construct(InputTriples)

\* Vocabulary.to_term
to_term(self_uri, u) ==
    IF StartsWith(u, self_uri) THEN SliceFrom(u, Len(self_uri) + 1) ELSE u

\* a grouping that puts the latest triple first
PairsOfLatestFirst(ts, p) ==
    LET sel == SelectSeq(ts, LAMBDA t : t.p = p)
    IN  [i \in 1..Len(sel) |->
            <<sel[Len(sel) + 1 - i].s, sel[Len(sel) + 1 - i].o>>]

\* the (s, o) pairs of the triples with predicate p, in input order
RECURSIVE PairsOf(_, _)
PairsOf(ts, p) ==
    IF ts = <<>> THEN <<>>
    ELSE LET rest == PairsOf(Tail(ts), p)
         IN  IF Head(ts).p = p THEN << <<Head(ts).s, Head(ts).o>> >> \o rest
             ELSE rest

\* the grouping loop of Vocabulary._build_vocabulary
GroupByProperty ==
    /\ pc = "_build_vocabulary"
    /\ UNCHANGED <<engineVars, doc, extraVars>>
    /\ by_property' = [p \in Predicates |-> PairsOf(triples, p)]
    /\ pc' = "_get_vocab_uri"
    /\ UNCHANGED <<cls, triples, debug_triples, exc, terms, deprecated_terms,
                   preliminary_terms, wider_terms, errors, warnings, uri,
                   flavour, label_property, description_property,
                   wider_property, term_type, asked, answer>>

\* a builder that reads the vocabulary from the last declaration
LastDeclaration(pairs) == pairs[Len(pairs)]

\* _get_vocab_uri: the declaration the vocabulary is read from
FirstDeclaration(pairs) == pairs[1]

\* _get_vocab_uri: the error for more than one declaration
MultipleDeclErrors(pairs) ==
    IF Len(pairs) > 1
    THEN << Msg("More than one ivoasem:vocflavour clause found", <<>>, <<>>) >>
    ELSE <<>>

\* a builder that fails on an unknown flavour without reporting it
UnknownFlavourSilent(f) == <<>>

\* _get_vocab_uri: the error for a flavour PROPERTIES_BY_FLAVOUR does not have
UnknownFlavourErrors(f) ==
    IF f \notin KnownFlavours
    THEN << Msg("Flavour unknown", f, <<>>) >>
    ELSE <<>>

\* Vocabulary._get_vocab_uri
GetVocabUri ==
    /\ pc = "_get_vocab_uri"
    /\ UNCHANGED <<engineVars, doc, extraVars>>
    /\ LET pairs == by_property["ivoasem:vocflavour"]
       IN  IF pairs = <<>>
           THEN /\ errors' = Append(errors,
                       Msg("No ivoasem:vocflavour declared", <<>>, <<>>))
                /\ pc' = "_build_terms"
                /\ UNCHANGED <<uri, flavour, label_property,
                               description_property, wider_property,
                               term_type, exc>>
           ELSE LET decl == FirstDeclaration(pairs)
                IN  /\ uri' = decl[1]
                    /\ flavour' = decl[2]
                    /\ errors' = errors \o MultipleDeclErrors(pairs)
                                        \o UnknownFlavourErrors(decl[2])
                    /\ IF decl[2] \notin KnownFlavours
                       THEN \* PROPERTIES_BY_FLAVOUR[self.flavour] raises
                            /\ pc' = "raised"
                            /\ exc' = KeyError(decl[2])
                            /\ UNCHANGED <<label_property, description_property,
                                           wider_property, term_type>>
                       ELSE /\ label_property' =
                                   PROPERTIES_BY_FLAVOUR(decl[2]).label_property
                            /\ description_property' =
                                   PROPERTIES_BY_FLAVOUR(decl[2]).description_property
                            /\ wider_property' =
                                   PROPERTIES_BY_FLAVOUR(decl[2]).wider_property
                            /\ term_type' = TERM_TYPES(decl[2])
                            /\ pc' = "_build_terms"
                            /\ exc' = exc
    /\ UNCHANGED <<cls, triples, debug_triples, by_property, terms,
                   deprecated_terms, preliminary_terms, wider_terms, warnings,
                   asked, answer>>

\* the subject is in the vocabulary's namespace, as the builder tests it
InNamespace(self_uri, s) == StartsWith(s, self_uri)

\* a builder that reads the definition from the label table
TermEntryLabelTwice(labels, definitions, s) ==
    <<LastValue(labels, s), LastValue(labels, s)>>

\* the value _build_terms records for subject s
TermEntry(labels, definitions, s) ==
    <<LastValue(labels, s), LastValue(definitions, s)>>

\* the loop of _build_terms over the rdf:type pairs
RECURSIVE TermsLoop(_, _, _, _, _, _)
TermsLoop(typePairs, acc, self_uri, ttype, labels, definitions) ==
    IF typePairs = <<>> THEN acc
    ELSE LET s == Head(typePairs)[1]
             o == Head(typePairs)[2]
         IN  TermsLoop(Tail(typePairs),
                 IF o = ttype /\ InNamespace(self_uri, s)
                 THEN DictSet(acc, to_term(self_uri, s),
                              TermEntry(labels, definitions, s))
                 ELSE acc,
                 self_uri, ttype, labels, definitions)

\* Vocabulary._build_terms; without a flavour declaration no statement has
\* set self.label_property, and reading it raises
BuildTerms ==
    /\ pc = "_build_terms"
    /\ UNCHANGED <<engineVars, doc, extraVars>>
    /\ IF label_property = Unset
       THEN /\ pc' = "raised"
            /\ exc' = AttributeError(<<"label_property">>)
            /\ terms' = terms
       ELSE /\ terms' = TermsLoop(by_property["rdf:type"], terms, uri,
                            term_type, by_property[label_property],
                            by_property[description_property])
            /\ pc' = "_build_hierarchy"
            /\ exc' = exc
    /\ UNCHANGED <<cls, triples, debug_triples, by_property, deprecated_terms,
                   preliminary_terms, wider_terms, errors, warnings, uri,
                   flavour, label_property, description_property,
                   wider_property, term_type, asked, answer>>

\* a builder that keeps a wider term once per subject
AppendWiderOnce(acc, key, value) ==
    IF DictHas(acc, key)
    THEN IF value \in Range(DictGet(acc, key)) THEN acc
         ELSE DictSet(acc, key, Append(DictGet(acc, key), value))
    ELSE DictSet(acc, key, <<value>>)

\* self.wider_terms.setdefault(key, []).append(value)
AppendWider(acc, key, value) ==
    IF DictHas(acc, key)
    THEN DictSet(acc, key, Append(DictGet(acc, key), value))
    ELSE DictSet(acc, key, <<value>>)

\* the loop of _build_hierarchy over the pairs of the wider property
RECURSIVE HierarchyLoop(_, _, _)
HierarchyLoop(pairs, acc, self_uri) ==
    IF pairs = <<>> THEN acc
    ELSE LET s == Head(pairs)[1]
             o == Head(pairs)[2]
         IN  HierarchyLoop(Tail(pairs),
                 IF InNamespace(self_uri, s)
                 THEN AppendWider(acc, to_term(self_uri, s), to_term(self_uri, o))
                 ELSE acc,
                 self_uri)

\* Vocabulary._build_hierarchy
BuildHierarchy ==
    /\ pc = "_build_hierarchy"
    /\ UNCHANGED <<engineVars, doc, extraVars>>
    /\ wider_terms' = HierarchyLoop(by_property[wider_property], wider_terms, uri)
    /\ pc' = "_build_deprecated_terms"
    /\ UNCHANGED <<cls, triples, debug_triples, exc, by_property, terms,
                   deprecated_terms, preliminary_terms, errors, warnings, uri,
                   flavour, label_property, description_property,
                   wider_property, term_type, asked, answer>>

\* the first loop of _build_deprecated_terms, over ivoasem:deprecated
RECURSIVE DeprecatedLoop(_, _, _)
DeprecatedLoop(pairs, acc, self_uri) ==
    IF pairs = <<>> THEN acc
    ELSE LET s == Head(pairs)[1]
         IN  DeprecatedLoop(Tail(pairs),
                 IF InNamespace(self_uri, s)
                 THEN DictSet(acc, to_term(self_uri, s), <<>>)
                 ELSE acc,
                 self_uri)

\* a builder that makes the entry when the subject has none
UseInsteadStepSetdefault(acc, self_uri, s, o) ==
    [acc EXCEPT !.deprecated =
        DictSet(@, to_term(self_uri, s),
                Append(IF DictHas(@, to_term(self_uri, s))
                       THEN DictGet(@, to_term(self_uri, s)) ELSE <<>>,
                       to_term(self_uri, o)))]

\* one round of the second loop: the try block and its except KeyError
UseInsteadStep(acc, self_uri, s, o) ==
    IF DictHas(acc.deprecated, to_term(self_uri, s))
    THEN [acc EXCEPT !.deprecated =
            DictSet(@, to_term(self_uri, s),
                    Append(DictGet(@, to_term(self_uri, s)),
                           to_term(self_uri, o)))]
    ELSE [acc EXCEPT !.errors =
            Append(@, Msg("UseInstead given for non-deprecated term",
                          to_term(self_uri, s), <<>>))]

\* the second loop of _build_deprecated_terms, over ivoasem:useInstead
RECURSIVE UseInsteadLoop(_, _, _)
UseInsteadLoop(pairs, acc, self_uri) ==
    IF pairs = <<>> THEN acc
    ELSE LET s == Head(pairs)[1]
             o == Head(pairs)[2]
         IN  UseInsteadLoop(Tail(pairs),
                 IF InNamespace(self_uri, s)
                 THEN UseInsteadStep(acc, self_uri, s, o)
                 ELSE acc,
                 self_uri)

\* Vocabulary._build_deprecated_terms
BuildDeprecatedTerms ==
    /\ pc = "_build_deprecated_terms"
    /\ UNCHANGED <<engineVars, doc, extraVars>>
    /\ LET flagged == DeprecatedLoop(by_property["ivoasem:deprecated"],
                                     deprecated_terms, uri)
           res == UseInsteadLoop(by_property["ivoasem:useInstead"],
                      [deprecated |-> flagged, errors |-> errors], uri)
       IN  /\ deprecated_terms' = res.deprecated
           /\ errors' = res.errors
    /\ pc' = "_build_preliminary"
    /\ UNCHANGED <<cls, triples, debug_triples, exc, by_property, terms,
                   preliminary_terms, wider_terms, warnings, uri, flavour,
                   label_property, description_property, wider_property,
                   term_type, asked, answer>>

\* the terms _build_preliminary adds
PreliminaryOf(pairs, self_uri) ==
    {to_term(self_uri, pairs[i][1]) :
        i \in {j \in 1..Len(pairs) : InNamespace(self_uri, pairs[j][1])}}

\* Vocabulary._build_preliminary, and the return into the caller: the
\* validating subclass goes on with its rules, the plain class with postprocess
BuildPreliminary ==
    /\ pc = "_build_preliminary"
    /\ UNCHANGED <<engineVars, doc, extraVars>>
    /\ preliminary_terms' = preliminary_terms \cup
           PreliminaryOf(by_property["ivoasem:preliminary"], uri)
    /\ pc' = IF cls = "ValidatingVocabulary"
             THEN "_validate_clean_flavour" ELSE "postprocess"
    /\ UNCHANGED <<cls, triples, debug_triples, exc, by_property, terms,
                   deprecated_terms, wider_terms, errors, warnings, uri,
                   flavour, label_property, description_property,
                   wider_property, term_type, asked, answer>>

\* Vocabulary.postprocess (a no-op) and the end of __init__
Postprocess ==
    /\ pc = "postprocess"
    /\ UNCHANGED <<engineVars, doc, extraVars>>
    /\ pc' = "done"
    /\ UNCHANGED <<cls, triples, debug_triples, exc, by_property, terms,
                   deprecated_terms, preliminary_terms, wider_terms, errors,
                   warnings, uri, flavour, label_property,
                   description_property, wider_property, term_type, asked,
                   answer>>

(***************************************************************************)
(* The rules of ValidatingVocabulary, run by its _build_vocabulary after   *)
(* the steps above.                                                        *)
(***************************************************************************)
\* the letters, for str.lower
UpperCase == <<"A", "B", "C", "D", "E", "F", "G", "H", "I", "J", "K", "L", "M",
               "N", "O", "P", "Q", "R", "S", "T", "U", "V", "W", "X", "Y", "Z">>
LowerCase == <<"a", "b", "c", "d", "e", "f", "g", "h", "i", "j", "k", "l", "m",
               "n", "o", "p", "q", "r", "s", "t", "u", "v", "w", "x", "y", "z">>
Digits == <<"0", "1", "2", "3", "4", "5", "6", "7", "8", "9">>

\* the characters of [A-Za-z0-9_-]
TermChars ==
    Range(UpperCase) \cup Range(LowerCase) \cup Range(Digits) \cup {"_", "-"}

LowerChar(c) ==
    IF c \in Range(UpperCase)
    THEN LowerCase[CHOOSE i \in 1..Len(UpperCase) : UpperCase[i] = c]
    ELSE c

\* str.lower
Lower(s) == [i \in 1..Len(s) |-> LowerChar(s[i])]

\* the truth value Python gives an optional string
Truthy(x) == x # NoneVal /\ x # <<>>

\* re.compile("[^A-Za-z0-9_-]+").search(t): the first longest run of
\* characters outside the class, <<>> when there is no match
FirstBadRun(t) ==
    LET bad == {i \in 1..Len(t) : t[i] \notin TermChars}
    IN  IF bad = {} THEN <<>>
        ELSE LET first == CHOOSE i \in bad : \A j \in bad : i <= j
                 last == CHOOSE i \in first..Len(t) :
                            /\ \A j \in first..i : j \in bad
                            /\ (i + 1) \notin bad
             IN  SubSeq(t, first, last)

\* everything the rule appended for the pairs of predicate prop
ForbiddenWarnings(f, prop, pairs) ==
    [i \in 1..Len(pairs) |->
        Msg("Forbidden triple", pairs[i][1], <<f, <<prop>>, pairs[i][2]>>)]

\* a rule that lets the other flavours' hierarchy predicates pass
ForbiddenPropertiesNoHierarchy(f) ==
    IF f = SKOS THEN <<>>
    ELSE <<"skos:prefLabel", "skos:definition", "skos:broader">>

\* forbidden_properties of _validate_clean_flavour
ForbiddenProperties(f) ==
    CASE f = SKOS -> <<"rdfs:subClassOf", "rdfs:subPropertyOf">>
      [] f = RDF_CLASS ->
            <<"rdfs:subPropertyOf", "skos:prefLabel", "skos:definition",
              "skos:broader">>
      [] f = RDF_PROPERTY ->
            <<"rdfs:subClassOf", "skos:prefLabel", "skos:definition",
              "skos:broader">>

\* forbidden_term_types of _validate_clean_flavour
ForbiddenTermTypes(f) ==
    {<<"rdfs:Class">>, <<"rdf:Property">>, <<"skos:Concept">>} \ {TERM_TYPES(f)}

RECURSIVE ForbiddenPropertyLoop(_, _, _)
ForbiddenPropertyLoop(props, f, byProp) ==
    IF props = <<>> THEN <<>>
    ELSE ForbiddenWarnings(f, Head(props), byProp[Head(props)])
            \o ForbiddenPropertyLoop(Tail(props), f, byProp)

RECURSIVE ForbiddenTypeLoop(_, _)
ForbiddenTypeLoop(pairs, f) ==
    IF pairs = <<>> THEN <<>>
    ELSE (IF Head(pairs)[2] \in ForbiddenTermTypes(f)
          THEN << Msg("has forbidden type", Head(pairs)[1],
                      <<Head(pairs)[2], f>>) >>
          ELSE <<>>)
            \o ForbiddenTypeLoop(Tail(pairs), f)

ruleFrame ==
    <<cls, triples, debug_triples, exc, by_property, terms, deprecated_terms,
      preliminary_terms, wider_terms, uri, flavour, label_property,
      description_property, wider_property, term_type, asked, answer>>

\* ValidatingVocabulary._validate_clean_flavour
ValidateCleanFlavour ==
    /\ pc = "_validate_clean_flavour"
    /\ UNCHANGED <<engineVars, doc, extraVars>>
    /\ warnings' = warnings \o
           ForbiddenPropertyLoop(ForbiddenProperties(flavour), flavour, by_property)
    /\ errors' = errors \o ForbiddenTypeLoop(by_property["rdf:type"], flavour)
    /\ pc' = "_validate_term_form"
    /\ UNCHANGED ruleFrame

\* the errors of _validate_term_form for the term keys, in dict order
RECURSIVE TermFormErrors(_)
TermFormErrors(keys) ==
    IF keys = <<>> THEN <<>>
    ELSE (IF FirstBadRun(Head(keys)) # <<>>
          THEN << Msg("IVOA terms can only contain", Head(keys),
                      <<FirstBadRun(Head(keys))>>) >>
          ELSE <<>>)
            \o TermFormErrors(Tail(keys))

\* ValidatingVocabulary._validate_term_form
ValidateTermForm ==
    /\ pc = "_validate_term_form"
    /\ UNCHANGED <<engineVars, doc, extraVars>>
    /\ errors' = errors \o TermFormErrors(DictKeys(terms))
    /\ pc' = "_validate_complete_terms"
    /\ UNCHANGED <<ruleFrame, warnings>>

\* the errors of _validate_complete_terms, in dict order
RECURSIVE CompleteTermsErrors(_)
CompleteTermsErrors(items) ==
    IF items = <<>> THEN <<>>
    ELSE LET t == Head(items)[1]
             d == Head(items)[2]
         IN  (IF d[1] = NoneVal
              THEN << Msg("Term has no label", t, <<>>) >> ELSE <<>>)
             \o (IF d[2] = NoneVal
                 THEN << Msg("Term has no definition", t, <<>>) >> ELSE <<>>)
             \o CompleteTermsErrors(Tail(items))

\* ValidatingVocabulary._validate_complete_terms
ValidateCompleteTerms ==
    /\ pc = "_validate_complete_terms"
    /\ UNCHANGED <<engineVars, doc, extraVars>>
    /\ errors' = errors \o CompleteTermsErrors(terms)
    /\ pc' = "_validate_suspicious_definitions"
    /\ UNCHANGED <<ruleFrame, warnings>>

\* the condition of _validate_suspicious_definitions
IsSuspicious(t, d) ==
    /\ Truthy(d[1])
    /\ Truthy(d[2])
    /\ \/ IsSubstring(Lower(d[1]), Lower(d[2]))
       \/ IsSubstring(Lower(t), Lower(d[2]))

RECURSIVE SuspiciousWarnings(_)
SuspiciousWarnings(items) ==
    IF items = <<>> THEN <<>>
    ELSE (IF IsSuspicious(Head(items)[1], Head(items)[2])
          THEN << Msg("Term repeats its label or fragment", Head(items)[1], <<>>) >>
          ELSE <<>>)
            \o SuspiciousWarnings(Tail(items))

\* ValidatingVocabulary._validate_suspicious_definitions
ValidateSuspiciousDefinitions ==
    /\ pc = "_validate_suspicious_definitions"
    /\ UNCHANGED <<engineVars, doc, extraVars>>
    /\ warnings' = warnings \o SuspiciousWarnings(terms)
    /\ pc' = "_validate_typed_node_form"
    /\ UNCHANGED <<ruleFrame, errors>>

\* typed_node_missing without the conversion of the typed subjects to terms
TypedNodeMissingRaw(termDict, fromTypedNodes, self_uri) ==
    DictKeySet(termDict) \ Range(fromTypedNodes)

\* typed_node_missing of _validate_typed_node_form
TypedNodeMissing(termDict, fromTypedNodes, self_uri) ==
    DictKeySet(termDict) \ {to_term(self_uri, s) : s \in Range(fromTypedNodes)}

\* the orders in which a loop can go through a Python set of strings
Orderings(S) ==
    {f \in [1..Cardinality(S) -> S] :
        \A i, j \in 1..Cardinality(S) : f[i] = f[j] => i = j}

\* ValidatingVocabulary._validate_typed_node_form;
\* by_property["debug:terms_from_typed_nodes"] raises when no triple has
\* that predicate
ValidateTypedNodeForm ==
    /\ pc = "_validate_typed_node_form"
    /\ UNCHANGED <<engineVars, doc, extraVars>>
    /\ IF debug_triples = <<>>
       THEN /\ pc' = "raised"
            /\ exc' = KeyError(<<"debug:terms_from_typed_nodes">>)
            /\ errors' = errors
       ELSE /\ \E order \in Orderings(TypedNodeMissing(terms, debug_triples[1], uri)) :
                  errors' = errors \o
                      [i \in 1..Len(order) |->
                          Msg("Term not defined through a typed node", order[i], <<>>)]
            /\ pc' = "_validate_vocabulary_uri"
            /\ exc' = exc
    /\ UNCHANGED <<cls, triples, debug_triples, by_property, terms,
                   deprecated_terms, preliminary_terms, wider_terms, warnings,
                   uri, flavour, label_property, description_property,
                   wider_property, term_type, asked, answer>>

\* a rule that lets additional hierarchy below the root pass
ValidateVocabularyUriRootOnly ==
    /\ pc = "_validate_vocabulary_uri"
    /\ UNCHANGED <<engineVars, doc, extraVars>>
    /\ errors' =
          IF StartsWith(uri, IvoVocUri) THEN errors
          ELSE Append(errors,
                   Msg("Vocabulary URI does not start with the canonical root",
                       uri, <<>>))
    /\ warnings' = warnings
    /\ pc' = IF flavour = SKOS THEN "_validate_extra_skos_properties"
             ELSE "_validate_treelike"
    /\ UNCHANGED ruleFrame

\* ValidatingVocabulary._validate_vocabulary_uri, and the two tests on
\* self.flavour that follow it in _build_vocabulary
ValidateVocabularyUri ==
    /\ pc = "_validate_vocabulary_uri"
    /\ UNCHANGED <<engineVars, doc, extraVars>>
    /\ IF StartsWith(uri, IvoVocUri)
       THEN /\ warnings' =
                 IF "/" \in Range(SliceFrom(uri, Len(IvoVocUri)))
                 THEN Append(warnings,
                          Msg("Vocabularies URIs should not introduce additional hierarchy",
                              <<>>, <<>>))
                 ELSE warnings
            /\ errors' = errors
       ELSE /\ errors' = Append(errors,
                   Msg("Vocabulary URI does not start with the canonical root",
                       uri, <<>>))
            /\ warnings' = warnings
    /\ pc' = IF flavour = SKOS THEN "_validate_extra_skos_properties"
             ELSE "_validate_treelike"
    /\ UNCHANGED ruleFrame

RECURSIVE FrownedWarnings(_, _)
FrownedWarnings(props, byProp) ==
    IF props = <<>> THEN <<>>
    ELSE (IF byProp[Head(props)] # <<>>
          THEN << MsgN("IVOA SKOS vocabularies should not use", <<>>,
                       << <<Head(props)>> >>, Len(byProp[Head(props)])) >>
          ELSE <<>>)
            \o FrownedWarnings(Tail(props), byProp)

\* ValidatingVocabulary._validate_extra_skos_properties (SKOS only)
ValidateExtraSkosProperties ==
    /\ pc = "_validate_extra_skos_properties"
    /\ UNCHANGED <<engineVars, doc, extraVars>>
    /\ warnings' = warnings \o FrownedWarnings(FrownedUpon, by_property)
    /\ pc' = "postprocess"
    /\ UNCHANGED <<ruleFrame, errors>>

\* a rule that names only the first of a term's wider terms
TreelikeFirstParentOnly(items) ==
    LET bad == SelectSeq(items, LAMBDA it : Len(it[2]) > 1)
    IN  [i \in 1..Len(bad) |->
            Msg("Terms in non-SKOS vocabularies may only have up to one wider term",
                bad[i][1], <<bad[i][2][1]>>)]

RECURSIVE TreelikeErrors(_)
TreelikeErrors(items) ==
    IF items = <<>> THEN <<>>
    ELSE (IF Len(Head(items)[2]) > 1
          THEN << Msg("Terms in non-SKOS vocabularies may only have up to one wider term",
                      Head(items)[1], Head(items)[2]) >>
          ELSE <<>>)
            \o TreelikeErrors(Tail(items))

\* ValidatingVocabulary._validate_treelike (RDF Class and RDF Property only)
ValidateTreelike ==
    /\ pc = "_validate_treelike"
    /\ UNCHANGED <<engineVars, doc, extraVars>>
    /\ errors' = errors \o TreelikeErrors(wider_terms)
    /\ pc' = "postprocess"
    /\ UNCHANGED <<ruleFrame, warnings>>

\* the constructor, statement by statement
Next ==
    \/ GroupByProperty
    \/ GetVocabUri
    \/ BuildTerms
    \/ BuildHierarchy
    \/ BuildDeprecatedTerms
    \/ BuildPreliminary
    \/ ValidateCleanFlavour
    \/ ValidateTermForm
    \/ ValidateCompleteTerms
    \/ ValidateSuspiciousDefinitions
    \/ ValidateTypedNodeForm
    \/ ValidateVocabularyUri
    \/ ValidateExtraSkosProperties
    \/ ValidateTreelike
    \/ Postprocess

Spec == Init /\ [][Next]_vars

\* a call of to_term on the model once it is built
ToTerm ==
    /\ pc = "done"
    /\ UNCHANGED <<engineVars, doc, extraVars>>
    /\ \E u \in {VocUri, UriA, UriB, UriP, UriF} :
          /\ asked' = u
          /\ answer' = to_term(uri, u)
    /\ UNCHANGED <<cls, triples, debug_triples, pc, exc, by_property, terms,
                   deprecated_terms, preliminary_terms, wider_terms, errors,
                   warnings, uri, flavour, label_property,
                   description_property, wider_property, term_type>>

\* models built from the flavour declarations alone, then asked for terms
ToTermInit == Construct(SeqsUpTo(FlavourDecls, MaxFlavourDecls))

ToTermNext == Next \/ ToTerm

ToTermSpec == ToTermInit /\ [][ToTermNext]_vars

(***************************************************************************)
(* The external validator, validator/vocvalidator.py.  A run of main takes *)
(* the vocabulary URIs of the command line in turn; what the server        *)
(* returns for a URI is fixed for the run.                                 *)
(***************************************************************************)
\* the longest list of vocabulary URIs
MaxVocabs == 2
\* the largest number of faults in what the server returns, over a run
MaxFaults == 1

IVOA_BASEURI == <<"http://www.ivoa.net/rdf/">>

\* the one mirrored vocabulary
UatUri == IVOA_BASEURI \o <<"u", "a", "t">>

MIRRORED_VOCS == {UatUri}

\* the URIs a command line can name
EngineUris == {VocUri, UatUri, OtherVocUri}

\* the values of desise["flavour"] of a sound summary form
EngineFlavours == {RDF_PROPERTY, SKOS}

\* flavour.startswith("RDF "), for the flavour names of the model
StartsWithRDF(f) == f \in {RDF_CLASS, RDF_PROPERTY}

\* the assert_ functions of the module's globals(), in definition order
Rules ==
    << "assert_uri_form",
       "assert_usable_turtle",
       "assert_usable_rdfx",
       "assert_identifier_form",
       "assert_vocflavour_given",
       "assert_skos_preferred_label",
       "assert_skos_definition",
       "assert_tree_shape",
       "assert_date_present",
       "assert_use_instead_not_deprecated",
       "assert_mirrored_voc_declares_sources" >>

RuleNames == Range(Rules)

\* What can be wrong with what the server returns for a URI: one of the
\* three representations cannot be retrieved or parsed, the summary form
\* gives a flavour that is not one of the three, or the content fails the
\* assertions of a rule.
FaultKinds == {"desise", "rdfx", "turtle", "flavour"} \cup RuleNames

\* the properties of a term in desise["terms"]: useInstead is NoneVal and
\* deprecated is FALSE when the term has no such key
Props(useInstead, deprecated) ==
    [useInstead |-> useInstead, deprecated |-> deprecated]

\* what the server returns for a URI with these faults: terms is
\* desise["terms"], in the order of the JSON object, graph the triples of
\* the RDF/X on hierarchy predicates
RemoteState(f, faults) ==
    [desise |-> IF "desise" \in faults THEN "broken" ELSE "ok",
     flavour |-> IF "flavour" \in faults THEN BogusFlavour ELSE f,
     rdfx |-> IF "rdfx" \in faults THEN "broken" ELSE "ok",
     turtle |-> IF "turtle" \in faults THEN "broken" ELSE "ok",
     terms |-> IF "assert_use_instead_not_deprecated" \in faults
               THEN << << <<"a">>, Props(<<"c">>, TRUE)>> >>
               ELSE << << <<"a">>, Props(NoneVal, FALSE)>> >>,
     graph |-> IF "assert_tree_shape" \in faults
               THEN {Triple(<<"a">>, "rdfs:subPropertyOf", <<"x">>),
                     Triple(<<"a">>, "rdfs:subPropertyOf", <<"y">>)}
               ELSE {},
     defects |-> faults \cap RuleNames]

\* the subsets of S with at most n elements
RECURSIVE SubsetsUpTo(_, _)
SubsetsUpTo(S, n) ==
    IF n = 0 THEN {{}}
    ELSE LET smaller == SubsetsUpTo(S, n - 1)
         IN  smaller \cup {s \cup {x} : s \in smaller, x \in S}

\* main after parse_args, for a command line with URIs
ValidatorInit ==
    /\ bail \in BOOLEAN
    /\ vocuris \in SeqsUpTo(EngineUris, MaxVocabs)
    /\ \E faults \in SubsetsUpTo(EngineUris \X FaultKinds, MaxFaults),
          flavours \in [EngineUris -> EngineFlavours] :
          remote = [i \in 1..Len(vocuris) |->
                       RemoteState(flavours[vocuris[i]],
                                   {f[2] : f \in {g \in faults :
                                                     g[1] = vocuris[i]}})]
    /\ rdfx_fetches = [i \in 1..Len(vocuris) |-> 0]
    /\ vpc = "main"
    /\ vidx = 1
    /\ vrule = 0
    /\ out = <<>>
    /\ cur_vocab = NoneVal
    /\ calls = <<>>
    /\ rdfx_cache = {}
    \* no model is built in a validator run
    /\ cls = "Vocabulary"
    /\ triples = <<>>
    /\ debug_triples = <<>>
    /\ pc = "idle"
    /\ exc = NoException
    /\ by_property = [p \in Predicates |-> <<>>]
    /\ terms = <<>>
    /\ deprecated_terms = <<>>
    /\ preliminary_terms = {}
    /\ wider_terms = <<>>
    /\ errors = <<>>
    /\ warnings = <<>>
    /\ uri = UriNotFound
    /\ flavour = UnsetStr
    /\ label_property = Unset
    /\ description_property = Unset
    /\ wider_property = Unset
    /\ term_type = UnsetStr
    /\ asked = NoneVal
    /\ answer = NoneVal
    /\ doc = <<>>
    /\ ExtraIdle

\* a line printed by Reporter._message: the message of run_check is the
\* rule's name and the text of the exception, main's message has no rule
Line(severity, vocab_uri, check, text) ==
    [severity |-> severity, vocab_uri |-> vocab_uri, check |-> check,
     text |-> text]

\* Reporter._message: the lines it prints
Message(cur, severity, vocab_uri, check, text) ==
    (IF vocab_uri # cur
     THEN << Line(">>>", vocab_uri, "", "") >>
     ELSE <<>>)
    \o << Line(severity, vocab_uri, check, text) >>

\* whether the rule, run on a vocabulary with this URI and these remote
\* representations, gets as far as calling vocab.get_rdfx()
CallsGetRdfx(rule, vocab_uri, r) ==
    CASE rule \in {"assert_usable_rdfx", "assert_skos_preferred_label",
                   "assert_skos_definition", "assert_date_present"} -> TRUE
      [] rule = "assert_vocflavour_given" -> r.flavour \in KnownFlavours
      [] rule = "assert_tree_shape" -> StartsWithRDF(r.flavour)
      [] rule = "assert_mirrored_voc_declares_sources" ->
            vocab_uri \in MIRRORED_VOCS
      [] OTHER -> FALSE

\* Vocabulary.get_rdfx under functools.cache: a call retrieves the RDF/X
\* unless an earlier call on the same object has returned
Retrieves(rule, vocab_uri, r, i, cache) ==
    CallsGetRdfx(rule, vocab_uri, r) /\ i \notin cache

\* terms[ident] of a desise terms object that has the key
PropsOf(dterms, ident) ==
    dterms[CHOOSE k \in 1..Len(dterms) : dterms[k][1] = ident][2]

\* a rule that only asks for the replacement to exist
UseInsteadFailsMissingOnly(dterms) ==
    \E k \in 1..Len(dterms) :
        /\ dterms[k][2].useInstead # NoneVal
        /\ dterms[k][2].useInstead \notin {dterms[j][1] : j \in 1..Len(dterms)}

\* whether an assertion of assert_use_instead_not_deprecated fails
UseInsteadFails(dterms) ==
    \E k \in 1..Len(dterms) :
        LET props == dterms[k][2]
        IN  /\ props.useInstead # NoneVal
            /\ \/ props.useInstead \notin {dterms[j][1] : j \in 1..Len(dterms)}
               \/ PropsOf(dterms, props.useInstead).deprecated

\* whether the assertion of assert_tree_shape fails: parentProp is
\* RDFS.subPropertyOf for every flavour
TreeShapeFails(dterms, graph) ==
    \E k \in 1..Len(dterms) :
        Cardinality({t \in graph : /\ t.s = dterms[k][1]
                                    /\ t.p = "rdfs:subPropertyOf"}) >= 2

\* the exception the rule raises, "" when it returns
Raised(rule, vocab_uri, r, i, cache) ==
    LET rdfx_fails == Retrieves(rule, vocab_uri, r, i, cache)
                          /\ r.rdfx = "broken"
        content == IF rule \in r.defects THEN "AssertionError" ELSE ""
    IN  CASE rule = "assert_uri_form" ->
               IF StartsWith(vocab_uri, IVOA_BASEURI) THEN ""
               ELSE "AssertionError"
          [] rule = "assert_usable_turtle" ->
               IF r.turtle = "broken" THEN "turtle unusable" ELSE content
          [] rule = "assert_identifier_form" -> content
          [] rule = "assert_use_instead_not_deprecated" ->
               IF UseInsteadFails(r.terms) THEN "AssertionError" ELSE ""
          [] rule = "assert_vocflavour_given" ->
               IF r.flavour \notin KnownFlavours THEN "AssertionError"
               ELSE IF rdfx_fails THEN "rdfx unusable" ELSE content
          [] rule = "assert_tree_shape" ->
               IF ~StartsWithRDF(r.flavour) THEN ""
               ELSE IF rdfx_fails THEN "rdfx unusable"
               ELSE IF TreeShapeFails(r.terms, r.graph)
               THEN "AssertionError" ELSE ""
          [] rule = "assert_mirrored_voc_declares_sources" ->
               IF vocab_uri \notin MIRRORED_VOCS THEN ""
               ELSE IF rdfx_fails THEN "rdfx unusable" ELSE content
          [] OTHER ->
               IF rdfx_fails THEN "rdfx unusable" ELSE content

\* run_check never re-raises
NeverPropagates(b) == FALSE

\* run_check re-raises what it caught in bail mode
Propagates(b) == b

\* validate_vocabulary's loop has come to the rule
AtRule(rule) ==
    /\ vpc = "validate_vocabulary"
    /\ Rules[vrule] = rule

\* Reporter.run_check on a rule; validate_vocabulary's loop goes on to the
\* next rule unless run_check raises
run_check(rule) ==
    /\ LET vocab_uri == vocuris[vidx]
           r == remote[vidx]
           retrieves == Retrieves(rule, vocab_uri, r, vidx, rdfx_cache)
           raised == Raised(rule, vocab_uri, r, vidx, rdfx_cache)
       IN  /\ rdfx_fetches' =
                 IF retrieves
                 THEN [rdfx_fetches EXCEPT ![vidx] = @ + 1]
                 ELSE rdfx_fetches
           /\ rdfx_cache' =
                 IF retrieves /\ r.rdfx = "ok"
                 THEN rdfx_cache \cup {vidx}
                 ELSE rdfx_cache
           /\ calls' = Append(calls, [vocab |-> vidx, check |-> rule,
                                      raised |-> raised # ""])
           /\ IF raised # ""
              THEN /\ out' = out \o Message(cur_vocab, "ERROR", vocab_uri,
                                            rule, raised)
                   /\ cur_vocab' = vocab_uri
              ELSE UNCHANGED <<out, cur_vocab>>
           /\ IF raised # "" /\ Propagates(bail)
              THEN /\ vpc' = "aborted"
                   /\ UNCHANGED <<vidx, vrule>>
              ELSE IF vrule < Len(Rules)
                   THEN /\ vrule' = vrule + 1
                        /\ UNCHANGED <<vpc, vidx>>
                   ELSE /\ vpc' = "main"
                        /\ vidx' = vidx + 1
                        /\ vrule' = 0
    /\ UNCHANGED <<modelVars, bail, vocuris, remote>>

assert_uri_form ==
    /\ AtRule("assert_uri_form")
    /\ run_check("assert_uri_form")

assert_usable_turtle ==
    /\ AtRule("assert_usable_turtle")
    /\ run_check("assert_usable_turtle")

assert_usable_rdfx ==
    /\ AtRule("assert_usable_rdfx")
    /\ run_check("assert_usable_rdfx")

assert_identifier_form ==
    /\ AtRule("assert_identifier_form")
    /\ run_check("assert_identifier_form")

assert_vocflavour_given ==
    /\ AtRule("assert_vocflavour_given")
    /\ run_check("assert_vocflavour_given")

assert_skos_preferred_label ==
    /\ AtRule("assert_skos_preferred_label")
    /\ run_check("assert_skos_preferred_label")

assert_skos_definition ==
    /\ AtRule("assert_skos_definition")
    /\ run_check("assert_skos_definition")

assert_tree_shape ==
    /\ AtRule("assert_tree_shape")
    /\ run_check("assert_tree_shape")

assert_date_present ==
    /\ AtRule("assert_date_present")
    /\ run_check("assert_date_present")

assert_use_instead_not_deprecated ==
    /\ AtRule("assert_use_instead_not_deprecated")
    /\ run_check("assert_use_instead_not_deprecated")

assert_mirrored_voc_declares_sources ==
    /\ AtRule("assert_mirrored_voc_declares_sources")
    /\ run_check("assert_mirrored_voc_declares_sources")

\* main's loop ends at a vocabulary whose constructor raised
AfterBrokenStops(i) == Len(vocuris) + 1

\* the position main's loop continues at after a vocabulary whose
\* constructor raised
AfterBroken(i) == i + 1

\* one turn of main's loop up to the call of validate_vocabulary: the
\* constructor retrieves the summary form
main ==
    /\ vpc = "main"
    /\ vidx <= Len(vocuris)
    /\ IF remote[vidx].desise = "broken"
       THEN /\ out' = out \o Message(cur_vocab, "ERROR", vocuris[vidx], "",
                                     "Vocabulary critically broken")
            /\ cur_vocab' = vocuris[vidx]
            /\ vidx' = AfterBroken(vidx)
            /\ UNCHANGED <<vpc, vrule>>
       ELSE /\ vpc' = "validate_vocabulary"
            /\ vrule' = 1
            /\ UNCHANGED <<out, cur_vocab, vidx>>
    /\ UNCHANGED <<modelVars, bail, vocuris, remote, calls, rdfx_cache,
                   rdfx_fetches>>

\* the end of main's loop
main_return ==
    /\ vpc = "main"
    /\ vidx > Len(vocuris)
    /\ vpc' = "exit"
    /\ UNCHANGED <<modelVars, bail, vocuris, remote, vidx, vrule, out,
                   cur_vocab, calls, rdfx_cache, rdfx_fetches>>

ValidatorNext ==
    \/ main
    \/ main_return
    \/ assert_uri_form
    \/ assert_usable_turtle
    \/ assert_usable_rdfx
    \/ assert_identifier_form
    \/ assert_vocflavour_given
    \/ assert_skos_preferred_label
    \/ assert_skos_definition
    \/ assert_tree_shape
    \/ assert_date_present
    \/ assert_use_instead_not_deprecated
    \/ assert_mirrored_voc_declares_sources

ValidatorSpec == ValidatorInit /\ [][ValidatorNext]_vars

(***************************************************************************)
(* Properties of the model builder.  They are stated over the input        *)
(* (triples) and the attributes of the model, not over the builder's own   *)
(* helpers.                                                                *)
(***************************************************************************)
\* the input triples with predicate p, in input order
TriplesOn(p) == SelectSeq(triples, LAMBDA t : t.p = p)

Decls == TriplesOn("ivoasem:vocflavour")

\* the exception came out of a validation rule, not out of the builder
RaisedInRule ==
    pc = "raised" /\ exc = KeyError(<<"debug:terms_from_typed_nodes">>)

\* how far the constructor has come
AfterGetVocabUri == pc \notin {"_build_vocabulary", "_get_vocab_uri"}
AfterBuildTerms ==
    AfterGetVocabUri /\ pc # "_build_terms" /\ (pc = "raised" => RaisedInRule)
AfterBuildHierarchy == AfterBuildTerms /\ pc # "_build_hierarchy"
AfterBuildDeprecated == AfterBuildHierarchy /\ pc # "_build_deprecated_terms"

NothingCollected ==
    /\ terms = <<>>
    /\ wider_terms = <<>>
    /\ deprecated_terms = <<>>
    /\ preliminary_terms = {}

\* the errors of the flavour resolution among errors, in order
FlavourErrors ==
    SelectSeq(errors, LAMBDA e :
        e.kind \in {"No ivoasem:vocflavour declared",
                    "More than one ivoasem:vocflavour clause found",
                    "Flavour unknown"})

\* C1: with no ivoasem:vocflavour triple in the input the constructor does
\* not raise; it appends exactly one "no flavour declared" error, uri keeps
\* its sentinel and terms, wider_terms, deprecated_terms and
\* preliminary_terms stay empty.
C1_NoFlavourDoesNotRaise ==
    Decls = <<>> =>
        /\ pc # "raised"
        /\ AfterGetVocabUri =>
              errors = << Msg("No ivoasem:vocflavour declared", <<>>, <<>>) >>
        /\ uri = UriNotFound
        /\ NothingCollected

\* C2: with one declaration of a known flavour, the keys of terms are exactly
\* to_term(s) for the subjects s of an rdf:type triple whose object is the
\* flavour's term type and which start with the vocabulary URI; the value of a
\* key is (label, definition) from the flavour's label and definition
\* predicates for s, None where s has no such triple.
C2_TermsAreTypedSubjects ==
    (Len(Decls) = 1 /\ Decls[1].o \in KnownFlavours /\ AfterBuildTerms) =>
        LET U == Decls[1].s
            props == PROPERTIES_BY_FLAVOUR(Decls[1].o)
            typed == {x.s : x \in {y \in Range(TriplesOn("rdf:type")) :
                                      /\ y.o = TERM_TYPES(Decls[1].o)
                                      /\ StartsWith(y.s, U)}}
            Values(p, s) == {x.o : x \in {y \in Range(TriplesOn(p)) : y.s = s}}
            SlotOk(v, p, s) ==
                IF Values(p, s) = {} THEN v = NoneVal ELSE v \in Values(p, s)
        IN  /\ DictKeySet(terms) = {to_term(U, s) : s \in typed}
            /\ \A i \in 1..Len(terms) :
                  \E s \in typed :
                      /\ to_term(U, s) = terms[i][1]
                      /\ SlotOk(terms[i][2][1], props.label_property, s)
                      /\ SlotOk(terms[i][2][2], props.description_property, s)

\* a built model with a labelled term without definition, next to a typed
\* subject of another vocabulary that is no term
C2_Witness ==
    /\ pc = "done"
    /\ Len(Decls) = 1
    /\ DictHas(terms, <<"a">>)
    /\ DictGet(terms, <<"a">>) = <<LabelX, NoneVal>>
    /\ \E i \in 1..Len(triples) :
          triples[i].p = "rdf:type" /\ triples[i].s = UriF
    /\ Len(terms) = 1

\* C3: for a model with a known flavour, to_term(u) strips the vocabulary's
\* URI and the "#" from a term URI u of this vocabulary (uri + "#" +
\* to_term(u) = u) and returns every other URI unchanged, also one of a
\* vocabulary whose URI begins with the characters of this vocabulary's URI.
C3_ToTermStripsOwnPrefixOnly ==
    (asked # NoneVal /\ flavour \in KnownFlavours) =>
        IF StartsWith(asked, uri \o <<"#">>)
        THEN uri \o <<"#">> \o answer = asked
        ELSE asked # uri => answer = asked

\* C4: one declaration, of a flavour that is not known: the builder appends
\* the "Flavour unknown" error, then fails at the lookup of the flavour's
\* configuration, with nothing collected.
C4_UnknownFlavourIsFatal ==
    (Len(Decls) = 1 /\ Decls[1].o \notin KnownFlavours /\ AfterGetVocabUri) =>
        /\ pc = "raised"
        /\ exc = KeyError(Decls[1].o)
        /\ errors = << Msg("Flavour unknown", Decls[1].o, <<>>) >>
        /\ NothingCollected

\* the builder has failed on an unknown flavour with term triples in the input
C4_Witness ==
    /\ pc = "raised"
    /\ exc.type = "KeyError"
    /\ Len(Decls) = 1
    /\ Decls[1].o = BogusFlavour
    /\ \E i \in 1..Len(triples) : triples[i].p = "rdf:type"

\* C5, as claimed: with more than one declaration exactly one error is
\* appended and construction continues with the first declaration: uri and
\* flavour are its subject and object and the later build steps run.
C5_MultipleDeclarationsContinue ==
    (Len(Decls) > 1 /\ AfterGetVocabUri) =>
        /\ uri = Decls[1].s
        /\ flavour = Decls[1].o
        /\ FlavourErrors =
              << Msg("More than one ivoasem:vocflavour clause found", <<>>, <<>>) >>
        /\ pc = "raised" => RaisedInRule

\* C5, amended: with more than one declaration uri and flavour are the
\* subject and object of the first one and the "more than one" error is
\* appended once; if that flavour is known no other flavour error is appended
\* and the later build steps run with its configuration; if it is unknown the
\* "Flavour unknown" error follows and the builder fails at the lookup with
\* nothing collected.
C5_FirstDeclarationWins ==
    (Len(Decls) > 1 /\ AfterGetVocabUri) =>
        /\ uri = Decls[1].s
        /\ flavour = Decls[1].o
        /\ IF Decls[1].o \in KnownFlavours
           THEN /\ FlavourErrors =
                     << Msg("More than one ivoasem:vocflavour clause found",
                            <<>>, <<>>) >>
                /\ pc = "raised" => RaisedInRule
                /\ label_property = PROPERTIES_BY_FLAVOUR(Decls[1].o).label_property
                /\ description_property =
                       PROPERTIES_BY_FLAVOUR(Decls[1].o).description_property
                /\ wider_property = PROPERTIES_BY_FLAVOUR(Decls[1].o).wider_property
                /\ term_type = TERM_TYPES(Decls[1].o)
                /\ \A i \in 1..Len(terms) :
                      \E j \in 1..Len(triples) :
                          /\ StartsWith(triples[j].s, Decls[1].s)
                          /\ triples[j].o = TERM_TYPES(Decls[1].o)
                          /\ terms[i][1] = to_term(Decls[1].s, triples[j].s)
           ELSE /\ errors =
                     << Msg("More than one ivoasem:vocflavour clause found",
                            <<>>, <<>>),
                        Msg("Flavour unknown", Decls[1].o, <<>>) >>
                /\ pc = "raised"
                /\ exc = KeyError(Decls[1].o)
                /\ NothingCollected

\* a model built from two declarations that differ in vocabulary and in
\* flavour, with a term of the first one
C5_Witness ==
    /\ pc = "done"
    /\ Len(Decls) = 2
    /\ Decls[1].s # Decls[2].s
    /\ Decls[1].o # Decls[2].o
    /\ Decls[2].o \in KnownFlavours
    /\ Len(terms) = 1
    /\ Len(errors) = 1

\* C6: every in-namespace subject of an ivoasem:deprecated triple has an entry
\* in deprecated_terms and no other term has one; the entry of s lists
\* to_term(o) for the ivoasem:useInstead triples (s, o) in input order,
\* wherever the deprecated triple stands; an in-namespace useInstead triple
\* whose subject has no deprecated triple gives one error each and nothing
\* else, and the builder does not raise.
C6_DeprecationAndReplacements ==
    (flavour \in KnownFlavours /\ AfterBuildDeprecated) =>
        LET use == TriplesOn("ivoasem:useInstead")
            flagged == {x.s : x \in {y \in Range(TriplesOn("ivoasem:deprecated")) :
                                        StartsWith(y.s, uri)}}
            stray == SelectSeq(use, LAMBDA t :
                        StartsWith(t.s, uri) /\ t.s \notin flagged)
        IN  /\ DictKeySet(deprecated_terms) = {to_term(uri, s) : s \in flagged}
            /\ \A s \in flagged :
                  LET mine == SelectSeq(use, LAMBDA t : t.s = s)
                  IN  DictGet(deprecated_terms, to_term(uri, s)) =
                          [i \in 1..Len(mine) |-> to_term(uri, mine[i].o)]
            /\ SelectSeq(errors, LAMBDA e :
                    e.kind = "UseInstead given for non-deprecated term") =
                  [i \in 1..Len(stray) |->
                      Msg("UseInstead given for non-deprecated term",
                          to_term(uri, stray[i].s), <<>>)]
            /\ pc = "raised" => RaisedInRule

\* a built model whose input has a replacement before the deprecation of its
\* subject, and a replacement for a term that is not deprecated
C6_Witness ==
    /\ pc = "done"
    /\ Len(triples) = 4
    /\ triples[2] = Triple(UriA, "ivoasem:useInstead", UriB)
    /\ triples[3] = Triple(UriA, "ivoasem:deprecated", NoneVal)
    /\ triples[4] = Triple(UriB, "ivoasem:useInstead", UriA)
    /\ deprecated_terms = << << <<"a">>, << <<"b">> >> >> >>
    /\ Len(errors) = 1

\* C7: the keys of wider_terms are to_term(s) for the in-namespace subjects s
\* of a triple on the flavour's wider predicate, and the entry of s lists
\* to_term(o) for these triples (s, o) in input order, duplicates kept;
\* subjects outside the namespace and triples of another flavour's hierarchy
\* predicate add nothing.
C7_WiderTermsInInputOrder ==
    (flavour \in KnownFlavours /\ AfterBuildHierarchy) =>
        LET wider == TriplesOn(PROPERTIES_BY_FLAVOUR(flavour).wider_property)
            subjects == {x.s : x \in {y \in Range(wider) : StartsWith(y.s, uri)}}
        IN  /\ DictKeySet(wider_terms) = {to_term(uri, s) : s \in subjects}
            /\ \A s \in subjects :
                  LET mine == SelectSeq(wider, LAMBDA t : t.s = s)
                  IN  DictGet(wider_terms, to_term(uri, s)) =
                          [i \in 1..Len(mine) |-> to_term(uri, mine[i].o)]

\* a built SKOS model with a term of two parents, one of them twice
C7_Witness ==
    /\ pc = "done"
    /\ flavour = SKOS
    /\ wider_terms = << << <<"a">>, << <<"b">>, UriF, <<"b">> >> >> >>

\* C9: in a ValidatingVocabulary a fault inside a validation rule does not
\* leave the constructor: the rules that remain run, and the fault is an
\* entry of errors (so without a debug:terms_from_typed_nodes triple).
C9_RuleFaultIsIsolated ==
    (cls = "ValidatingVocabulary" /\ flavour \in KnownFlavours) =>
        /\ ~RaisedInRule
        /\ (pc = "done" /\ debug_triples = <<>>) => errors # <<>>

(***************************************************************************)
(* Properties of the external validator.  They are stated over the command *)
(* line (bail, vocuris), what the server returns (remote), the calls of    *)
(* rules and the lines printed.                                            *)
(***************************************************************************)
\* the calls of rules made for the i-th URI of the command line, in order
CallsOn(i) == SelectSeq(calls, LAMBDA c : c.vocab = i)

RaisedCalls == SelectSeq(calls, LAMBDA c : c.raised)

\* the errors printed for rules
RuleErrors == SelectSeq(out, LAMBDA l : l.severity = "ERROR" /\ l.check # "")

\* the errors printed for the vocabulary with URI u
ErrorsFor(u) ==
    SelectSeq(out, LAMBDA l : l.severity = "ERROR" /\ l.vocab_uri = u)

\* the errors printed for the vocabulary with URI u by the rule check
\* ("" for main's own)
ErrorsOf(u, check) == SelectSeq(ErrorsFor(u), LAMBDA l : l.check = check)

\* how often the command line names u
Occurrences(u) == Cardinality({i \in 1..Len(vocuris) : vocuris[i] = u})

\* main is through with the i-th URI
Finished(i) == vpc = "exit" \/ (vpc # "aborted" /\ i < vidx)

\* the i-th URI was processed: its summary form could not be had and main
\* said so, or every rule was called on it
Processed(i) ==
    IF remote[i].desise = "broken"
    THEN Len(ErrorsOf(vocuris[i], "")) = Occurrences(vocuris[i])
    ELSE Len(CallsOn(i)) = Len(Rules)

\* the server's answer is sound but for one representation
OnlyBroken(r, representation) ==
    /\ r.flavour \in KnownFlavours
    /\ r = RemoteState(r.flavour, {representation})

\* the rules that read the RDF/X rendering of a vocabulary with URI u whose
\* summary form gives the flavour f
RdfxRules(u, f) ==
    {"assert_usable_rdfx", "assert_vocflavour_given",
     "assert_skos_preferred_label", "assert_skos_definition",
     "assert_date_present"}
    \cup (IF f \in {RDF_CLASS, RDF_PROPERTY}
          THEN {"assert_tree_shape"} ELSE {})
    \cup (IF u = UatUri
          THEN {"assert_mirrored_voc_declares_sources"} ELSE {})

\* C8: without bail every assert_ rule is called exactly once, in order, on
\* a vocabulary whose summary form could be had, however many of the rules
\* raised, and every call that raised printed exactly one error carrying the
\* rule's name; with bail a call that raised printed its error, ended the run
\* with the exception, and is the last call made.
C8_EveryRuleRunsUnlessBail ==
    /\ \A i \in 1..Len(vocuris) :
          LET on == CallsOn(i)
          IN  /\ Len(on) <= Len(Rules)
              /\ \A k \in 1..Len(on) : on[k].check = Rules[k]
              /\ (~bail /\ Finished(i) /\ remote[i].desise = "ok")
                     => Len(on) = Len(Rules)
    /\ Len(RuleErrors) = Len(RaisedCalls)
    /\ \A k \in 1..Len(RaisedCalls) :
          /\ RuleErrors[k].check = RaisedCalls[k].check
          /\ RuleErrors[k].vocab_uri = vocuris[RaisedCalls[k].vocab]
    /\ ~bail => vpc # "aborted"
    /\ bail => \A k \in 1..Len(calls) :
                  calls[k].raised => (k = Len(calls) /\ vpc = "aborted")
    /\ vpc = "aborted" => (calls # <<>> /\ calls[Len(calls)].raised)

\* a run without bail is through with a vocabulary on which two rules raised
\* and rules after them returned
C8_Witness ==
    /\ ~bail
    /\ vpc = "exit"
    /\ \E i \in 1..Len(vocuris) :
          LET on == CallsOn(i)
          IN  /\ Len(on) = Len(Rules)
              /\ Cardinality({k \in 1..Len(on) : on[k].raised}) >= 2
              /\ ~on[Len(on)].raised

\* C10 as stated: after a run without bail, a vocabulary in the IVOA root
\* whose only fault is that one of its three representations cannot be
\* retrieved or parsed has exactly one error, and every URI of the command
\* line was processed.
C10_OneErrorPerRetrievalFailure ==
    (~bail /\ vpc = "exit") =>
        /\ \A j \in 1..Len(vocuris) : Processed(j)
        /\ \A i \in 1..Len(vocuris) :
              (/\ StartsWith(vocuris[i], IVOA_BASEURI)
               /\ \E representation \in {"desise", "rdfx", "turtle"} :
                     OnlyBroken(remote[i], representation))
                  => Len(ErrorsFor(vocuris[i])) = Occurrences(vocuris[i])

\* C10, amended: after a run without bail every URI of the command line was
\* processed; a vocabulary in the IVOA root whose only fault is an unusable
\* summary form has exactly one error, main's "critically broken", and no
\* rule was called on it; one whose only fault is an unusable Turtle
\* rendering has exactly one error, from assert_usable_turtle; one whose
\* only fault is an unusable RDF/X rendering has one error from each rule
\* that reads the RDF/X and no other.
C10_RetrievalFailureByRepresentation ==
    (~bail /\ vpc = "exit") =>
        /\ \A j \in 1..Len(vocuris) : Processed(j)
        /\ \A i \in 1..Len(vocuris) :
              LET u == vocuris[i]
                  r == remote[i]
                  n == Occurrences(u)
              IN  StartsWith(u, IVOA_BASEURI) =>
                    /\ OnlyBroken(r, "desise") =>
                          /\ Len(ErrorsFor(u)) = n
                          /\ Len(ErrorsOf(u, "")) = n
                          /\ CallsOn(i) = <<>>
                    /\ OnlyBroken(r, "turtle") =>
                          /\ Len(ErrorsFor(u)) = n
                          /\ Len(ErrorsOf(u, "assert_usable_turtle")) = n
                    /\ OnlyBroken(r, "rdfx") =>
                          /\ \A rule \in RuleNames :
                                Len(ErrorsOf(u, rule)) =
                                    IF rule \in RdfxRules(u, r.flavour)
                                    THEN n ELSE 0
                          /\ ErrorsOf(u, "") = <<>>

\* a run without bail has ended whose first vocabulary had no usable summary
\* form and on whose second, another one, every rule was called
C10_Witness ==
    /\ ~bail
    /\ vpc = "exit"
    /\ Len(vocuris) = 2
    /\ vocuris[1] # vocuris[2]
    /\ remote[1].desise = "broken"
    /\ Len(ErrorsOf(vocuris[1], "")) = 1
    /\ Len(CallsOn(2)) = Len(Rules)

\* C11: for every vocabulary object of a run the RDF/X rendering is
\* retrieved at most once, whether the first retrieval succeeded or failed,
\* and get_rdfx holds a result only for an object that retrieved one.
C11_RdfxRetrievedAtMostOnce ==
    /\ \A i \in 1..Len(vocuris) : rdfx_fetches[i] <= 1
    /\ \A i \in rdfx_cache : rdfx_fetches[i] = 1 /\ remote[i].rdfx = "ok"

(***************************************************************************)
(* Properties of the validation rules of ValidatingVocabulary.  They are   *)
(* stated over the model the builder made and over the lists errors and    *)
(* warnings once every rule has run.                                       *)
(***************************************************************************)
\* the constructor of a ValidatingVocabulary has run its last rule
AllRulesRan == cls = "ValidatingVocabulary" /\ pc \in {"postprocess", "done"}

\* the entries of a diagnostics list with this format
OfKind(msgs, kind) == SelectSeq(msgs, LAMBDA e : e.kind = kind)

\* the entries of a diagnostics list with this format about this subject
About(msgs, kind, subject) ==
    SelectSeq(msgs, LAMBDA e : e.kind = kind /\ e.subject = subject)

TreelikeKind ==
    "Terms in non-SKOS vocabularies may only have up to one wider term"

\* C12: in a validating model of flavour RDF Class or RDF Property every
\* term with more than one wider term has exactly one tree-shape error, which
\* names the term and its wider terms in the order of wider_terms, and no
\* term with at most one wider term has one; a SKOS model has no tree-shape
\* error.
C12_TreeShapeErrors ==
    AllRulesRan =>
        IF flavour = SKOS
        THEN OfKind(errors, TreelikeKind) = <<>>
        ELSE /\ \A t \in DictKeySet(wider_terms) :
                   LET about == About(errors, TreelikeKind, t)
                       wider == DictGet(wider_terms, t)
                   IN  IF Len(wider) > 1
                       THEN about = << Msg(TreelikeKind, t, wider) >>
                       ELSE about = <<>>
             /\ \A k \in 1..Len(OfKind(errors, TreelikeKind)) :
                   OfKind(errors, TreelikeKind)[k].subject
                       \in DictKeySet(wider_terms)

\* a validating RDF Class model with a term that has two different wider
\* terms, reported
C12_Witness ==
    /\ AllRulesRan
    /\ flavour = RDF_CLASS
    /\ \E t \in DictKeySet(wider_terms) :
          /\ Len(DictGet(wider_terms, t)) = 2
          /\ DictGet(wider_terms, t)[1] # DictGet(wider_terms, t)[2]
          /\ Len(About(errors, TreelikeKind, t)) = 1

(***************************************************************************)
(* Vocabularies with terms of all forms, for the identifier-form rule.     *)
(***************************************************************************)
\* the longest term key
MaxKeyLen == 2
\* the largest number of typed subjects
MaxTerms == 2

\* characters of term keys: two of the class [A-Za-z0-9_-], two outside it
KeyChars == {"a", "_", "$", " "}

\* triple lists declaring a vocabulary of a known flavour and typing up to
\* MaxTerms subjects "<VocUri>#<key>"
TermFormInputs ==
    UNION {{<<Triple(VocUri, "ivoasem:vocflavour", f)>> \o
                [i \in 1..Len(keys) |->
                    Triple(VocUri \o <<"#">> \o keys[i], "rdf:type",
                           TERM_TYPES(f))] :
               keys \in SeqsUpTo(SeqsUpTo(KeyChars, MaxKeyLen), MaxTerms)} :
           f \in KnownFlavours}

TermFormInit == Construct(TermFormInputs)

TermFormSpec == TermFormInit /\ [][Next]_vars

TermFormKind == "IVOA terms can only contain"

\* t matches [A-Za-z0-9_-]+ in full
MatchesTermForm(t) == t # <<>> /\ \A i \in 1..Len(t) : t[i] \in TermChars

\* cited is a run of characters of t, none of them of the class
CitesOffending(t, cited) ==
    /\ cited # <<>>
    /\ \A i \in 1..Len(cited) : cited[i] \notin TermChars
    /\ \E k \in 1..Len(t) :
          k + Len(cited) - 1 <= Len(t)
              /\ SubSeq(t, k, k + Len(cited) - 1) = cited

\* C13: once the rules have run, a term key that does not match
\* [A-Za-z0-9_-]+ in full, the empty key included, has exactly one
\* identifier-form error, which cites offending characters of the key, and a
\* key that matches has none.
C13_TermFormErrors ==
    AllRulesRan =>
        \A t \in DictKeySet(terms) :
            LET about == About(errors, TermFormKind, t)
            IN  IF MatchesTermForm(t)
                THEN about = <<>>
                ELSE /\ Len(about) = 1
                     /\ CitesOffending(t, about[1].items[1])

(***************************************************************************)
(* Vocabulary.from_file.  A document is the sequence of the elements below *)
(* rdf:RDF, each with its tag, its rdf:about and its child elements; tags  *)
(* are written with their canonical prefix, as prefixify gives them.  A    *)
(* URL in a known namespace is the namespace, as one atom, and the rest.   *)
(***************************************************************************)
\* the largest number of term elements in a document
MaxElements == 2
\* the largest number of child elements of a term element
MaxChildren == 1

NsRdf == "http://www.w3.org/1999/02/22-rdf-syntax-ns#"
NsRdfs == "http://www.w3.org/2000/01/rdf-schema#"
NsSkos == "http://www.w3.org/2004/02/skos/core#"

\* PREFIX_DEF, for the namespaces the documents use
PREFIX_DEF ==
    [ns \in {NsRdf, NsRdfs, NsSkos} |->
        CASE ns = NsRdf -> "rdf"
          [] ns = NsRdfs -> "rdfs"
          [] ns = NsSkos -> "skos"]

\* "prefix:rest"; the three term types are written as the one atom that
\* TERM_TYPES uses for them
Curie(prefix, rest) ==
    CASE prefix = "rdfs" /\ rest = <<"Class">> -> <<"rdfs:Class">>
      [] prefix = "rdf" /\ rest = <<"Property">> -> <<"rdf:Property">>
      [] prefix = "skos" /\ rest = <<"Concept">> -> <<"skos:Concept">>
      [] OTHER -> <<prefix, ":">> \o rest

\* prefixify_url, for a string
prefixify_url(url) ==
    IF url # <<>> /\ Head(url) \in DOMAIN PREFIX_DEF
    THEN Curie(PREFIX_DEF[Head(url)], Tail(url))
    ELSE url

TypeError == [type |-> "TypeError", arg |-> <<>>]

\* object_generating_elements of from_file
ObjectGeneratingElements ==
    UNION {{PROPERTIES_BY_FLAVOUR(f).label_property,
            PROPERTIES_BY_FLAVOUR(f).description_property,
            PROPERTIES_BY_FLAVOUR(f).wider_property} : f \in KnownFlavours}
    \cup {"rdf:type", "rdf:about", "ivoasem:preliminary",
          "ivoasem:deprecated", "ivoasem:useInstead", "ivoasem:vocflavour"}

\* subject_generating_elements of from_file
SubjectGeneratingElements == {"rdf:Property", "rdfs:Class", "skos:Concept"}

\* an element below a term element: its rdf:resource and its text are
\* NoneVal when it has none
Child(tag, resource, text) ==
    [tag |-> tag, resource |-> resource, text |-> text]

\* an element below rdf:RDF; about is NoneVal when it has no rdf:about
Element(tag, about, children) ==
    [tag |-> tag, about |-> about, children |-> children]

\* the place in a document where the markup stops being well-formed (an
\* unclosed or mismatched tag)
Malformed == Element("", NoneVal, <<>>)

\* xml.etree.ElementTree.ParseError, raised by iterparse
ParseError == [type |-> "ParseError", arg |-> <<>>]

\* from_file's locals before the first event
NothingRead == [triples |-> <<>>, typed |-> <<>>, exc |-> NoException]

\* a reader that passes over an element whose enclosing element has no
\* rdf:about
ReadChildSkipsOrphans(acc, about, c) ==
    IF acc.exc # NoException \/ c.tag \notin ObjectGeneratingElements
           \/ about = NoneVal
    THEN acc
    ELSE LET o == IF c.resource # NoneVal THEN c.resource ELSE c.text
         IN  IF o = NoneVal
             THEN [acc EXCEPT !.exc = TypeError]
             ELSE [acc EXCEPT !.triples =
                      Append(@, Triple(prefixify_url(about), c.tag,
                                       prefixify_url(o)))]

\* the end event of an element c whose enclosing element has this rdf:about
ReadChild(acc, about, c) ==
    IF acc.exc # NoException \/ c.tag \notin ObjectGeneratingElements
    THEN acc
    ELSE IF about = NoneVal
    THEN [acc EXCEPT !.exc = KeyError(<<"rdf:about">>)]
    ELSE LET o == IF c.resource # NoneVal THEN c.resource ELSE c.text
         IN  IF o = NoneVal
             THEN [acc EXCEPT !.exc = TypeError]
             ELSE [acc EXCEPT !.triples =
                      Append(@, Triple(prefixify_url(about), c.tag,
                                       prefixify_url(o)))]

RECURSIVE ReadChildren(_, _, _)
ReadChildren(acc, about, cs) ==
    IF cs = <<>> THEN acc
    ELSE ReadChildren(ReadChild(acc, about, Head(cs)), about, Tail(cs))

\* a reader that makes no rdf:type triple of a typed-node element
ReadElementNoType(acc, e) == ReadChildren(acc, e.about, e.children)

\* the events of an element below rdf:RDF: its children's, then its own end;
\* iterparse raises where the markup is not well-formed
ReadElement(acc, e) ==
    LET read == ReadChildren(acc, e.about, e.children)
    IN  IF acc.exc = NoException /\ e = Malformed
        THEN [acc EXCEPT !.exc = ParseError]
        ELSE IF read.exc # NoException THEN read
        ELSE IF e.tag \in ObjectGeneratingElements
        THEN [read EXCEPT !.exc = KeyError(<<"rdf:about">>)]
        ELSE IF e.tag \notin SubjectGeneratingElements THEN read
        ELSE IF e.about = NoneVal
        THEN [read EXCEPT !.exc = KeyError(<<"rdf:about">>)]
        ELSE [read EXCEPT
                 !.triples = Append(@, Triple(prefixify_url(e.about),
                                              "rdf:type", <<e.tag>>)),
                 !.typed = Append(@, prefixify_url(e.about))]

RECURSIVE ReadDocument(_, _)
ReadDocument(acc, es) ==
    IF es = <<>> THEN acc
    ELSE ReadDocument(ReadElement(acc, Head(es)), Tail(es))

\* Vocabulary.from_file up to the call of the constructor
FromFile ==
    /\ pc = "from_file"
    /\ LET read == ReadDocument(NothingRead, doc)
       IN  IF read.exc # NoException
           THEN /\ pc' = "raised"
                /\ exc' = read.exc
                /\ UNCHANGED <<triples, debug_triples>>
           ELSE /\ triples' = read.triples
                /\ debug_triples' =
                      IF cls = "ValidatingVocabulary"
                      THEN << read.typed >> ELSE <<>>
                /\ pc' = "_build_vocabulary"
                /\ exc' = exc
    /\ UNCHANGED <<cls, by_property, terms, deprecated_terms,
                   preliminary_terms, wider_terms, errors, warnings, uri,
                   flavour, label_property, description_property,
                   wider_property, term_type, asked, answer, doc, engineVars,
                   extraVars>>

\* the element that declares the vocabulary and its flavour
VocabularyElement(f) ==
    Element("rdf:Description", VocUri,
            <<Child("ivoasem:vocflavour", NoneVal, f)>>)

\* the rdf:resource of an rdf:type element, per term type
TypeUrls ==
    {<<NsRdfs, "Class">>, <<NsRdf, "Property">>, <<NsSkos, "Concept">>}

\* the children of term elements: a type, a label, a discouraged SKOS
\* property
TermChildren(f) ==
    {Child("rdf:type", u, NoneVal) : u \in TypeUrls}
    \cup {Child(PROPERTIES_BY_FLAVOUR(f).label_property, NoneVal, LabelA),
          Child("skos:related", UriB, NoneVal)}

\* term elements in the typed-node idioms and in the untyped one
TermElements(f) ==
    {Element(tag, about, cs) :
        tag \in SubjectGeneratingElements \cup {"rdf:Description"},
        about \in {UriA, UriF},
        cs \in SeqsUpTo(TermChildren(f), MaxChildren)}

\* the documents read
Documents ==
    UNION {{<<VocabularyElement(f)>> \o es :
               es \in SeqsUpTo(TermElements(f), MaxElements)} :
           f \in KnownFlavours}

\* the call cls.from_file(fp) on a document out of docs
FromFileOn(docs) ==
    /\ cls \in {"Vocabulary", "ValidatingVocabulary"}
    /\ doc \in docs
    /\ pc = "from_file"
    /\ triples = <<>>
    /\ debug_triples = <<>>
    /\ exc = NoException
    /\ by_property = [p \in Predicates |-> <<>>]
    /\ terms = <<>>
    /\ deprecated_terms = <<>>
    /\ preliminary_terms = {}
    /\ wider_terms = <<>>
    /\ errors = <<>>
    /\ warnings = <<>>
    /\ uri = UriNotFound
    /\ flavour = UnsetStr
    /\ label_property = Unset
    /\ description_property = Unset
    /\ wider_property = Unset
    /\ term_type = UnsetStr
    /\ asked = NoneVal
    /\ answer = NoneVal
    /\ ExtraIdle
    /\ EngineIdle

FromFileInit == FromFileOn(Documents)

FromFileNext == FromFile \/ Next

FromFileSpec == FromFileInit /\ [][FromFileNext]_vars

(***************************************************************************)
(* Properties of models read from documents.                               *)
(***************************************************************************)
TypedNodeKind == "Term not defined through a typed node"

\* some typed-node element of the document has an rdf:about that gives the
\* term t
DeclaredByTypedNode(t) ==
    \E i \in 1..Len(doc) :
        /\ doc[i].tag \in SubjectGeneratingElements
        /\ doc[i].about # NoneVal
        /\ to_term(uri, doc[i].about) = t

\* C14: in a validating model read from a document, a term of terms that no
\* typed-node element declares has exactly one typed-node error, a term that
\* a typed-node element declares has none, and there is no typed-node error
\* about anything else.
C14_TypedNodeErrors ==
    (AllRulesRan /\ doc # <<>>) =>
        /\ \A t \in DictKeySet(terms) :
              Len(About(errors, TypedNodeKind, t)) =
                  IF DeclaredByTypedNode(t) THEN 0 ELSE 1
        /\ \A k \in 1..Len(OfKind(errors, TypedNodeKind)) :
              OfKind(errors, TypedNodeKind)[k].subject \in DictKeySet(terms)

\* a validating model read from a document that declares term a only by an
\* rdf:Description with an rdf:type child; the error is there
C14_Witness ==
    /\ AllRulesRan
    /\ Len(doc) = 2
    /\ doc[2].tag = "rdf:Description"
    /\ doc[2].about = UriA
    /\ DictHas(terms, <<"a">>)
    /\ Len(About(errors, TypedNodeKind, <<"a">>)) = 1

\* the i-th element of the document is a typed-node element with rdf:about
IsTypedNode(i) ==
    doc[i].tag \in SubjectGeneratingElements /\ doc[i].about # NoneVal

\* C15 as stated: in the model built from a document, the term of every
\* typed-node element's rdf:about is a key of terms.
C15_TypedNodesAreTerms ==
    (pc = "done" /\ doc # <<>>) =>
        \A i \in 1..Len(doc) :
            IsTypedNode(i) => DictHas(terms, to_term(uri, doc[i].about))

\* C15, amended: in the model built from a document, the term of the
\* rdf:about of every typed-node element whose tag is the term type of the
\* declared flavour and whose rdf:about begins with the vocabulary URI is a
\* key of terms.
C15_OwnTypedNodesAreTerms ==
    (pc = "done" /\ doc # <<>>) =>
        \A i \in 1..Len(doc) :
            (/\ IsTypedNode(i)
             /\ <<doc[i].tag>> = TERM_TYPES(flavour)
             /\ StartsWith(doc[i].about, uri))
                => DictHas(terms, to_term(uri, doc[i].about))

\* a SKOS model built from a document with a skos:Concept element for term a
C15_Witness ==
    /\ pc = "done"
    /\ flavour = SKOS
    /\ Len(doc) = 2
    /\ doc[2].tag = "skos:Concept"
    /\ doc[2].about = UriA
    /\ DictHas(terms, <<"a">>)

(***************************************************************************)
(* Vocabularies that mix the predicates and term types of the flavours,    *)
(* for the flavour-purity rule.                                            *)
(***************************************************************************)
\* the label, definition and hierarchy predicates of flavour f
FlavourPredicates(f) ==
    {PROPERTIES_BY_FLAVOUR(f).label_property,
     PROPERTIES_BY_FLAVOUR(f).description_property,
     PROPERTIES_BY_FLAVOUR(f).wider_property}

\* triples about term a on every flavour's predicates and of every flavour's
\* term type
PurityTriples ==
    {Triple(UriA, p, LabelA) :
        p \in UNION {FlavourPredicates(f) : f \in KnownFlavours}}
    \cup {Triple(UriA, "rdf:type", TERM_TYPES(f)) : f \in KnownFlavours}

PurityInputs ==
    {<<Triple(VocUri, "ivoasem:vocflavour", f)>> \o body :
        f \in KnownFlavours, body \in SeqsUpTo(PurityTriples, MaxTriples)}

PurityInit == Construct(PurityInputs)

PuritySpec == PurityInit /\ [][Next]_vars

\* how often x is in the sequence
Count(seq, x) == Cardinality({i \in 1..Len(seq) : seq[i] = x})

\* the predicates that are a label, definition or hierarchy predicate of
\* another flavour and not of f
ReservedForOthers(f) ==
    UNION {FlavourPredicates(g) : g \in KnownFlavours \ {f}}
        \ FlavourPredicates(f)

\* the same, but for rdfs:label and rdfs:comment in SKOS vocabularies
WarnedAbout(f) ==
    ReservedForOthers(f)
        \ (IF f = SKOS THEN {"rdfs:label", "rdfs:comment"} ELSE {})

\* every triple on one of the predicates has one forbidden-triple warning
\* and no other triple has; every rdf:type triple whose object is another
\* flavour's term type has one forbidden-type error and no other triple has
PurityDiagnostics(predicates) ==
    /\ \A i \in 1..Len(triples) :
          LET t == triples[i]
          IN  /\ t.p \in predicates =>
                    Count(warnings,
                          Msg("Forbidden triple", t.s,
                              <<flavour, <<t.p>>, t.o>>)) = Count(triples, t)
              /\ (t.p = "rdf:type" /\ t.o \in
                      {TERM_TYPES(g) : g \in KnownFlavours \ {flavour}}) =>
                    Count(errors,
                          Msg("has forbidden type", t.s, <<t.o, flavour>>))
                        = Count(triples, t)
    /\ Len(OfKind(warnings, "Forbidden triple")) =
          Cardinality({i \in 1..Len(triples) : triples[i].p \in predicates})
    /\ Len(OfKind(errors, "has forbidden type")) =
          Cardinality({i \in 1..Len(triples) :
              /\ triples[i].p = "rdf:type"
              /\ triples[i].o \in
                    {TERM_TYPES(g) : g \in KnownFlavours \ {flavour}}})

\* C16 as stated: once the rules have run there is exactly one warning for
\* every triple on a label, definition or hierarchy predicate that belongs
\* to another flavour and not to the declared one, exactly one error for
\* every rdf:type triple with another flavour's term type, and none for any
\* other triple.
C16_FlavourPurity ==
    AllRulesRan => PurityDiagnostics(ReservedForOthers(flavour))

\* C16, amended: as stated, except that in a SKOS vocabulary triples on
\* rdfs:label and rdfs:comment get no warning.
C16_FlavourPurityButRdfsInSkos ==
    AllRulesRan => PurityDiagnostics(WarnedAbout(flavour))

\* a validating RDF Class model of a list with a skos:prefLabel triple and
\* an rdf:Property typing, both reported
C16_Witness ==
    /\ AllRulesRan
    /\ flavour = RDF_CLASS
    /\ \E i, j \in 1..Len(triples) :
          /\ triples[i].p = "skos:prefLabel"
          /\ triples[j] = Triple(UriA, "rdf:type", <<"rdf:Property">>)
    /\ Len(OfKind(warnings, "Forbidden triple")) = 1
    /\ Len(OfKind(errors, "has forbidden type")) = 1

ExtraSkosKind == "IVOA SKOS vocabularies should not use"

\* the elements of the document read that are named p, at either level
RECURSIVE UsesIn(_, _)
UsesIn(es, p) ==
    IF es = <<>> THEN 0
    ELSE (IF Head(es).tag = p THEN 1 ELSE 0)
            + Len(SelectSeq(Head(es).children, LAMBDA c : c.tag = p))
            + UsesIn(Tail(es), p)

\* C17: once the rules have run on the model of a document, a SKOS
\* vocabulary has, for every discouraged SKOS predicate its document uses,
\* exactly one warning naming the predicate and the number of its uses, and
\* none for a predicate it does not use; a non-SKOS vocabulary has no such
\* warning.
C17_DiscouragedSkosPredicates ==
    (AllRulesRan /\ doc # <<>>) =>
        \A k \in 1..Len(FrownedUpon) :
            LET p == FrownedUpon[k]
                given == SelectSeq(warnings,
                             LAMBDA e : e.kind = ExtraSkosKind
                                        /\ e.items = << <<p>> >>)
            IN  IF flavour = SKOS /\ UsesIn(doc, p) > 0
                THEN Len(given) = 1 /\ given[1].n = UsesIn(doc, p)
                ELSE given = <<>>

SuspiciousKind == "Term repeats its label or fragment"

\* the definition d holds x as a substring, whatever the case
HoldsIgnoringCase(d, x) ==
    d # NoneVal /\ x # NoneVal /\ IsSubstring(Lower(x), Lower(d))

\* C18: once the rules have run, every term whose definition holds its
\* label or its key as a case-insensitive substring, with or without a
\* label, has exactly one redundancy warning, every other term has none,
\* and the rule gives no error.
C18_DefinitionRedundancy ==
    AllRulesRan =>
        /\ \A i \in 1..Len(terms) :
              LET t == terms[i][1]
                  label == terms[i][2][1]
                  definition == terms[i][2][2]
              IN  Len(About(warnings, SuspiciousKind, t)) =
                      IF \/ HoldsIgnoringCase(definition, label)
                         \/ HoldsIgnoringCase(definition, t)
                      THEN 1 ELSE 0
        /\ OfKind(errors, SuspiciousKind) = <<>>

(***************************************************************************)
(* Vocabularies at and away from the canonical root, for the rule on the   *)
(* vocabulary URI.                                                         *)
(***************************************************************************)
\* the root without its last slash
RootNoSlash == <<"http://www.ivoa.net/rdf">>

\* vocabulary URIs: the root itself, one name below it, names with further
\* hierarchy, and URIs that are not below the root
HygieneUris ==
    {IvoVocUri, VocUri, IvoVocUri \o <<"m", "/", "t">>,
     IvoVocUri \o <<"t", "/">>, OtherVocUri, RootNoSlash,
     <<"x">> \o IvoVocUri \o <<"t">>}

\* a declaration of the flavour, then triples on a term of the vocabulary
HygieneInputs ==
    UNION {{<<Triple(u, "ivoasem:vocflavour", f)>> \o body :
               body \in SeqsUpTo(
                   {Triple(u \o <<"#", "a">>, "rdf:type", TERM_TYPES(f)),
                    Triple(u \o <<"#", "a">>,
                           PROPERTIES_BY_FLAVOUR(f).label_property, LabelA)},
                   MaxTerms)} :
           u \in HygieneUris, f \in KnownFlavours}

HygieneInit == Construct(HygieneInputs)

HygieneSpec == HygieneInit /\ [][Next]_vars

HierarchyKind == "Vocabularies URIs should not introduce additional hierarchy"
RootKind == "Vocabulary URI does not start with the canonical root"

\* the diagnostics of the rule on the vocabulary URI
HygieneWarnings == Len(OfKind(warnings, HierarchyKind))
HygieneErrors == Len(OfKind(errors, RootKind))

UnderRoot(u) == Len(u) >= 1 /\ u[1] = IvoVocUri[1]
HasFurtherSlash(u) == \E i \in 2..Len(u) : u[i] = "/"

\* C19: once the rules have run, the rule on the vocabulary URI has given
\* nothing for a URI below the canonical root with no further "/", one
\* warning and no error for a URI below the root with further hierarchy,
\* and one error (naming the URI) and no warning for a URI not below the
\* root.
C19_UriHygiene ==
    AllRulesRan =>
        CASE UnderRoot(uri) /\ ~HasFurtherSlash(uri) ->
                 HygieneWarnings = 0 /\ HygieneErrors = 0
          [] UnderRoot(uri) /\ HasFurtherSlash(uri) ->
                 HygieneWarnings = 1 /\ HygieneErrors = 0
          [] OTHER ->
                 /\ HygieneWarnings = 0
                 /\ HygieneErrors = 1
                 /\ Len(About(errors, RootKind, uri)) = 1

\* a validating model of a vocabulary two levels below the root, with the
\* warning
C19_Witness ==
    /\ AllRulesRan
    /\ uri = IvoVocUri \o <<"m", "/", "t">>
    /\ HygieneWarnings = 1
    /\ HygieneErrors = 0

(***************************************************************************)
(* The table by_property against the triple list it was built from.        *)
(***************************************************************************)
\* the triples that the pairs of by_property[p] stand for
TriplesBack(p) ==
    [i \in 1..Len(by_property[p]) |->
        Triple(by_property[p][i][1], p, by_property[p][i][2])]

\* the pairs held under the predicates of S
RECURSIVE PairsUnder(_)
PairsUnder(S) ==
    IF S = {} THEN 0
    ELSE LET p == CHOOSE q \in S : TRUE
         IN  Len(by_property[p]) + PairsUnder(S \ {p})

\* C20: once the triples are grouped, for every predicate p the pairs of
\* by_property[p], read back as triples on p, are the input triples on p:
\* the same triples, as often, in the same order; the table holds as many
\* pairs as the list has triples.
C20_GroupedByPredicate ==
    pc # "_build_vocabulary" =>
        /\ \A p \in Predicates :
              TriplesBack(p) = SelectSeq(triples, LAMBDA t : t.p = p)
        /\ PairsUnder(Predicates) = Len(triples)

\* a table with three pairs under rdf:type, the first and the last equal
\* and the second different, beside the flavour declaration
C20_Witness ==
    /\ pc # "_build_vocabulary"
    /\ Len(by_property["rdf:type"]) = 3
    /\ by_property["rdf:type"][1] = by_property["rdf:type"][3]
    /\ by_property["rdf:type"][1][1] = UriA
    /\ by_property["rdf:type"][2][1] = UriB
    /\ Len(by_property["ivoasem:vocflavour"]) = 1

(***************************************************************************)
(* The same triples handed to the constructor a second time, as when a     *)
(* vocabulary is validated again, in this or in another interpreter.       *)
(***************************************************************************)
\* ValidatingVocabulary(triples) once more: __init__ starts from empty
\* attributes; the diagnostics of the first model are kept for comparison
ConstructAgain ==
    /\ pc = "done"
    /\ cls = "ValidatingVocabulary"
    /\ earlier = <<>>
    /\ earlier' = << [errors |-> errors, warnings |-> warnings] >>
    /\ pc' = "_build_vocabulary"
    /\ exc' = NoException
    /\ by_property' = [p \in Predicates |-> <<>>]
    /\ terms' = <<>>
    /\ deprecated_terms' = <<>>
    /\ preliminary_terms' = {}
    /\ wider_terms' = <<>>
    /\ errors' = <<>>
    /\ warnings' = <<>>
    /\ uri' = UriNotFound
    /\ flavour' = UnsetStr
    /\ label_property' = Unset
    /\ description_property' = Unset
    /\ wider_property' = Unset
    /\ term_type' = UnsetStr
    /\ UNCHANGED <<cls, triples, debug_triples, asked, answer, doc, engineVars,
                   bridgeVars>>

\* a flavour declaration and up to MaxTerms triples on terms, term p among
\* them
TwiceInputs ==
    UNION {{<<Triple(VocUri, "ivoasem:vocflavour", f)>> \o body :
               body \in SeqsUpTo(
                   TermTriples(f)
                       \cup {Triple(UriP, "rdf:type", TERM_TYPES(f))},
                   MaxTerms)} :
           f \in KnownFlavours}

TwiceInit == Construct(TwiceInputs)

TwiceNext == Next \/ ConstructAgain

TwiceSpec == TwiceInit /\ [][TwiceNext]_vars

\* C21: when the rules have run a second time over the same triples, the
\* errors and the warnings are the lists the first run gave, in content and
\* in order.
C21_RulesTwiceSameDiagnostics ==
    (pc = "done" /\ earlier # <<>>) =>
        /\ errors = earlier[1].errors
        /\ warnings = earlier[1].warnings

(***************************************************************************)
(* Documents with faults: markup that is not well-formed, elements without *)
(* rdf:about, properties below rdf:RDF, empty properties.                  *)
(***************************************************************************)
\* the children of term elements: a label, a wider term by rdf:resource, one
\* with text beside it, a bare deprecation flag, a property from_file does
\* not read
ReadChildrenOf(f) ==
    {Child(PROPERTIES_BY_FLAVOUR(f).label_property, NoneVal, LabelA),
     Child(PROPERTIES_BY_FLAVOUR(f).wider_property, UriB, NoneVal),
     Child(PROPERTIES_BY_FLAVOUR(f).wider_property, UriB, LabelA),
     Child("ivoasem:deprecated", NoneVal, NoneVal),
     Child("skos:related", UriB, NoneVal)}

\* typed nodes, descriptions and properties below rdf:RDF, with and without
\* rdf:about, and the place where the markup breaks
ReadElements(f) ==
    {Element(tag, about, cs) :
        tag \in {TERM_TYPES(f)[1], "rdf:Description", "ivoasem:preliminary"},
        about \in {UriA, NoneVal},
        cs \in SeqsUpTo(ReadChildrenOf(f), MaxChildren)}
    \cup {Malformed}

ReadDocuments ==
    UNION {{<<VocabularyElement(f)>> \o es :
               es \in SeqsUpTo(ReadElements(f), MaxElements)} :
           f \in KnownFlavours}

ReadInit == FromFileOn(ReadDocuments)

ReadSpec == ReadInit /\ [][FromFileNext]_vars

\* element e has a property from_file reads
HasReadChild(e) ==
    \E k \in 1..Len(e.children) : e.children[k].tag \in ObjectGeneratingElements

\* the document is not well-formed, or has a property that from_file reads
\* in an element without rdf:about (rdf:RDF is one), or a typed node
\* without rdf:about
Faulty(d) ==
    \E i \in 1..Len(d) :
        \/ d[i] = Malformed
        \/ d[i].tag \in ObjectGeneratingElements
        \/ /\ d[i].about = NoneVal
           /\ d[i].tag \in SubjectGeneratingElements \/ HasReadChild(d[i])

\* no constructor has run: nothing of a model is there
NotConstructed ==
    /\ triples = <<>>
    /\ debug_triples = <<>>
    /\ \A p \in Predicates : by_property[p] = <<>>
    /\ terms = <<>>
    /\ deprecated_terms = <<>>
    /\ preliminary_terms = {}
    /\ wider_terms = <<>>
    /\ uri = UriNotFound
    /\ flavour = UnsetStr
    /\ errors = <<>>
    /\ warnings = <<>>

\* C22: when from_file has read a document that is not well-formed, or in
\* which a property it reads lies in an element without rdf:about, or a
\* typed node has no rdf:about, it has raised and no constructor has run.
C22_FaultyDocumentBuildsNothing ==
    (doc # <<>> /\ Faulty(doc) /\ pc # "from_file") =>
        /\ pc = "raised"
        /\ exc.type \in {"ParseError", "KeyError", "TypeError"}
        /\ NotConstructed

\* from_file has raised ParseError on a document whose markup breaks after
\* a term element with a label, and nothing is built
C22_Witness ==
    /\ pc = "raised"
    /\ exc = ParseError
    /\ Len(doc) = 3
    /\ doc[2].about = UriA
    /\ HasReadChild(doc[2])
    /\ doc[3] = Malformed
    /\ NotConstructed

\* the triple of the claim for child c of an element with this rdf:about:
\* none for a property from_file does not read; the object is the
\* rdf:resource when there is one, else the text, NoneVal for an empty
\* element
RECURSIVE ChildTriples(_, _)
ChildTriples(about, cs) ==
    IF cs = <<>> THEN <<>>
    ELSE LET c == Head(cs)
             o == IF c.resource # NoneVal THEN c.resource ELSE c.text
         IN  (IF c.tag \in ObjectGeneratingElements
              THEN << Triple(prefixify_url(about), c.tag,
                             IF o = NoneVal THEN NoneVal
                             ELSE prefixify_url(o)) >>
              ELSE <<>>)
                \o ChildTriples(about, Tail(cs))

\* the triples of a document: per element those of its children, then the
\* rdf:type triple of a typed node
RECURSIVE DocumentTriples(_)
DocumentTriples(d) ==
    IF d = <<>> THEN <<>>
    ELSE LET e == Head(d)
         IN  ChildTriples(e.about, e.children)
                \o (IF e.tag \in SubjectGeneratingElements
                    THEN << Triple(prefixify_url(e.about), "rdf:type",
                                   <<e.tag>>) >>
                    ELSE <<>>)
                \o DocumentTriples(Tail(d))

\* C24: when from_file has read a document without the faults of C22, the
\* triples it hands to the constructor are, in document order, one per
\* element of the allow-list (subject the rdf:about of the enclosing
\* element, predicate the tag, object the rdf:resource or else the text,
\* null for an empty element) and the rdf:type triples of the typed nodes;
\* other elements give no triple.
C24_OneTriplePerReadElement ==
    (doc # <<>> /\ ~Faulty(doc) /\ pc # "from_file") =>
        triples = DocumentTriples(doc)

(***************************************************************************)
(* Terms that are deprecated, preliminary or narrower without being        *)
(* declared.                                                               *)
(***************************************************************************)
\* the terms of deprecated_terms, wider_terms and preliminary_terms that
\* are no key of terms
Dangling ==
    (DictKeySet(deprecated_terms) \cup DictKeySet(wider_terms)
        \cup preliminary_terms) \ DictKeySet(terms)

\* C23: a plain model with a dangling term is never left by an exception,
\* and once the rules of a validating model have run, errors holds an error
\* about every dangling term.
C23_DanglingTermsReported ==
    /\ (cls = "Vocabulary" /\ Dangling # {}) => pc # "raised"
    /\ AllRulesRan =>
          \A t \in Dangling :
              \E i \in 1..Len(errors) : errors[i].subject = t

(***************************************************************************)
(* Runs of the validator on one vocabulary whose representations can be    *)
(* retrieved, with hierarchies and replacements of every kind.             *)
(***************************************************************************)
\* the largest number of terms in desise["terms"]
MaxDesiseTerms == 2

\* the identifiers of the terms, in the order of the JSON object
Idents == << <<"a">>, <<"b">>, <<"d">> >>

\* a term's properties: no useInstead, one naming term b, one naming a term
\* that is not there; deprecated or not
DesiseProps ==
    {Props(u, d) : u \in {NoneVal, <<"b">>, <<"c">>}, d \in BOOLEAN}

DesiseTerms ==
    UNION {{[k \in 1..n |-> <<Idents[k], ps[k]>>] :
               ps \in [1..n -> DesiseProps]} :
           n \in 0..MaxDesiseTerms}

\* the triples of the RDF/X that give term a a parent
ParentTriples ==
    {Triple(<<"a">>, p, o) :
        p \in {"rdfs:subPropertyOf", "rdfs:subClassOf", "skos:broader"},
        o \in {<<"x">>, <<"y">>}}

\* no model is built in a validator run
BuilderIdle ==
    /\ cls = "Vocabulary"
    /\ triples = <<>>
    /\ debug_triples = <<>>
    /\ pc = "idle"
    /\ exc = NoException
    /\ by_property = [p \in Predicates |-> <<>>]
    /\ terms = <<>>
    /\ deprecated_terms = <<>>
    /\ preliminary_terms = {}
    /\ wider_terms = <<>>
    /\ errors = <<>>
    /\ warnings = <<>>
    /\ uri = UriNotFound
    /\ flavour = UnsetStr
    /\ label_property = Unset
    /\ description_property = Unset
    /\ wider_property = Unset
    /\ term_type = UnsetStr
    /\ asked = NoneVal
    /\ answer = NoneVal
    /\ doc = <<>>
    /\ ExtraIdle

\* main after parse_args, for a command line with the URI of a vocabulary
\* of any flavour
ContentInit ==
    /\ bail \in BOOLEAN
    /\ vocuris = <<VocUri>>
    /\ \E f \in KnownFlavours, dterms \in DesiseTerms,
          graph \in SUBSET ParentTriples :
          remote = << [RemoteState(f, {}) EXCEPT
                          !.terms = dterms, !.graph = graph] >>
    /\ rdfx_fetches = <<0>>
    /\ vpc = "main"
    /\ vidx = 1
    /\ vrule = 0
    /\ out = <<>>
    /\ cur_vocab = NoneVal
    /\ calls = <<>>
    /\ rdfx_cache = {}
    /\ BuilderIdle

ContentSpec == ContentInit /\ [][ValidatorNext]_vars

\* the calls of the rule made so far
CallsOf(rule) == SelectSeq(calls, LAMBDA c : c.check = rule)

\* some term of the summary form has two or more triples on the hierarchy
\* predicate of the vocabulary's flavour
HasManyParents(r) ==
    /\ r.flavour \in {RDF_CLASS, RDF_PROPERTY}
    /\ \E k \in 1..Len(r.terms) :
          Cardinality({t \in r.graph :
              /\ t.s = r.terms[k][1]
              /\ t.p = PROPERTIES_BY_FLAVOUR(r.flavour).wider_property}) >= 2

\* C25: a call of assert_tree_shape has raised exactly when the vocabulary
\* is of flavour RDF Class or RDF Property and a term of it has more than
\* one triple on its flavour's hierarchy predicate in the RDF/X; it has
\* raised nothing for a SKOS vocabulary or when every term has at most one
\* parent.
C25_TreeShapeBothRdfFlavours ==
    \A k \in 1..Len(CallsOf("assert_tree_shape")) :
        LET c == CallsOf("assert_tree_shape")[k]
        IN  c.raised <=> HasManyParents(remote[c.vocab])

\* term k of the summary form has a replacement pointer
Replaced(r, k) == r.terms[k][2].useInstead # NoneVal

\* the replacement of term k is no term of the vocabulary, or a deprecated
\* one
BadReplacement(r, k) ==
    LET target == r.terms[k][2].useInstead
        named == {j \in 1..Len(r.terms) : r.terms[j][1] = target}
    IN  \/ named = {}
        \/ \E j \in named : r.terms[j][2].deprecated

MaxConcepts == 2

UAT_TERM_PREFIX == "http://astrothesaurus.org/uat/"
IVO_TERM_PREFIX == "http://www.ivoa.net/rdf/uat#"

\* the characters of [A-Za-z0-9]
AlnumChars == Range(UpperCase) \cup Range(LowerCase) \cup Range(Digits)

\* s without the characters outside [A-Za-z0-9] it begins with
RECURSIVE SkipNonAlnum(_)
SkipNonAlnum(s) ==
    IF s = <<>> \/ Head(s) \in AlnumChars THEN s
    ELSE SkipNonAlnum(Tail(s))

\* re.sub("[^A-Za-z0-9]+", "-", label)
RECURSIVE DashRuns(_)
DashRuns(s) ==
    IF s = <<>> THEN <<>>
    ELSE IF Head(s) \in AlnumChars
    THEN <<Head(s)>> \o DashRuns(Tail(s))
    ELSE <<"-">> \o DashRuns(SkipNonAlnum(Tail(s)))

label_to_term(label) == Lower(DashRuns(label))

\* the mappings and whether the call has raised
Mapping(uat, ivo, raised) == [uat |-> uat, ivo |-> ivo, raised |-> raised]

\* an add_pair that looks at the UAT URI only
AddPairChecksUatOnly(m, uat_uri, ivo_uri) ==
    IF DictHas(m.uat, uat_uri)
    THEN Mapping(m.uat, m.ivo, TRUE)
    ELSE Mapping(DictSet(m.uat, uat_uri, ivo_uri),
                 DictSet(m.ivo, ivo_uri, uat_uri), FALSE)

\* ConceptMapping.add_pair
AddPair(m, uat_uri, ivo_uri) ==
    IF DictHas(m.uat, uat_uri) \/ DictHas(m.ivo, ivo_uri)
    THEN Mapping(m.uat, m.ivo, TRUE)
    ELSE Mapping(DictSet(m.uat, uat_uri, ivo_uri),
                 DictSet(m.ivo, ivo_uri, uat_uri), FALSE)

\* an rdf:Description of a tree: its rdf:about, the text of its English
\* label (NoneVal without one), whether it has the type skos:Concept
Description(about, label, is_concept) ==
    [about |-> about, label |-> label, is_concept |-> is_concept]

\* ConceptMapping.add_concept
AddConcept(m, desc_node) ==
    IF desc_node.label = NoneVal
    THEN Mapping(m.uat, m.ivo, TRUE)
    ELSE AddPair(m, desc_node.about,
                 <<IVO_TERM_PREFIX>> \o label_to_term(desc_node.label))

\* one turn of update_from_etree's loop over iter_uat_concepts(tree, True)
UpdateStep(m, desc_node) ==
    IF m.raised \/ ~desc_node.is_concept THEN m
    ELSE IF ~StartsWith(desc_node.about, <<UAT_TERM_PREFIX>>)
    THEN Mapping(m.uat, m.ivo, TRUE)
    ELSE IF DictHas(m.uat, desc_node.about) THEN m
    ELSE AddConcept(m, desc_node)

RECURSIVE UpdateFrom(_, _)
UpdateFrom(m, tree) ==
    IF tree = <<>> THEN m
    ELSE UpdateFrom(UpdateStep(m, Head(tree)), Tail(tree))

\* the URIs and labels of the calls: two UAT concepts and a foreign one;
\* two labels with the same term, one with another, none
Uat1 == <<UAT_TERM_PREFIX, "1">>
Uat2 == <<UAT_TERM_PREFIX, "2">>
NonUat == <<"http://example.org/", "3">>
BridgeLabels ==
    {<<"A", " ", "b">>, <<"a", "-", "-", "b">>, <<"C">>, NoneVal}
IvoUris == {<<IVO_TERM_PREFIX>> \o label_to_term(l) : l \in BridgeLabels \ {NoneVal}}

\* concepts of the UAT with every label, a concept that is not of the UAT,
\* descriptions that are no concepts
Descriptions ==
    {Description(about, l, TRUE) : about \in {Uat1, Uat2}, l \in BridgeLabels}
    \cup {Description(NonUat, <<"C">>, TRUE),
          Description(Uat1, <<"C">>, FALSE),
          Description(NonUat, <<"C">>, FALSE)}

Trees == SeqsUpTo(Descriptions, MaxConcepts)

\* no model is built and no validator runs while the mapping is made
bridgeFrame == <<ruleFrame, pc, errors, warnings, doc, earlier, engineVars>>

\* a call of ConceptMapping.add_pair
add_pair ==
    \E uat_uri \in {Uat1, Uat2}, ivo_uri \in IvoUris :
        LET m == AddPair(Mapping(uat_mapping, ivo_mapping, FALSE),
                         uat_uri, ivo_uri)
        IN  /\ uat_mapping' = m.uat
            /\ ivo_mapping' = m.ivo
            /\ bridge_call' = Call("add_pair", uat_uri, ivo_uri, <<>>,
                                   m.raised, uat_mapping, ivo_mapping)
            /\ UNCHANGED bridgeFrame

\* a call of ConceptMapping.update_from_etree
update_from_etree ==
    \E tree \in Trees :
        LET m == UpdateFrom(Mapping(uat_mapping, ivo_mapping, FALSE), tree)
        IN  /\ uat_mapping' = m.uat
            /\ ivo_mapping' = m.ivo
            /\ bridge_call' = Call("update_from_etree", NoneVal, NoneVal,
                                   tree, m.raised, uat_mapping, ivo_mapping)
            /\ UNCHANGED bridgeFrame

\* ConceptMapping() under BOOTSTRAP
BridgeInit == BuilderIdle /\ EngineIdle

BridgeNext == add_pair \/ update_from_etree

BridgeSpec == BridgeInit /\ [][BridgeNext]_vars

\* d maps its keys one to one, and e maps every value of d back to its key
InverseOf(d, e) ==
    /\ Len(d) = Len(e)
    /\ \A i, j \in 1..Len(d) : d[i][1] = d[j][1] => i = j
    /\ \A i \in 1..Len(d) :
          DictHas(e, d[i][2]) /\ DictGet(e, d[i][2]) = d[i][1]

\* C27: whatever calls of add_pair and update_from_etree were made,
\* uat_mapping and ivo_mapping are inverses of each other; an add_pair
\* whose UAT URI or IVOA URI was mapped before has raised and left both
\* mappings as they were; update_from_etree has left every UAT URI that
\* was mapped before with the IVOA URI it had.
C27_MappingsAreInverses ==
    /\ InverseOf(uat_mapping, ivo_mapping)
    /\ InverseOf(ivo_mapping, uat_mapping)
    /\ (/\ bridge_call.op = "add_pair"
        /\ \/ DictHas(bridge_call.uat_before, bridge_call.uat)
           \/ DictHas(bridge_call.ivo_before, bridge_call.ivo))
          => /\ bridge_call.raised
             /\ uat_mapping = bridge_call.uat_before
             /\ ivo_mapping = bridge_call.ivo_before
    /\ bridge_call.op = "update_from_etree" =>
          \A i \in 1..Len(bridge_call.uat_before) :
              uat_mapping[i] = bridge_call.uat_before[i]

\* add_pair has raised for a new UAT URI and an IVOA URI that was mapped,
\* and one pair is mapped as before
C27_Witness ==
    /\ bridge_call.op = "add_pair"
    /\ bridge_call.raised
    /\ ~DictHas(bridge_call.uat_before, bridge_call.uat)
    /\ DictHas(bridge_call.ivo_before, bridge_call.ivo)
    /\ Len(uat_mapping) = 1
    /\ uat_mapping = bridge_call.uat_before

====
